---- MODULE Spec2Model ----
(***************************************************************************)
(* A model of the debayering code of cvr (src/src/debayer.rs):             *)
(*   - iter::DebayerRG8, the lazy per-pixel iterator,                      *)
(*   - demosaic_rg8, the eager float routine,                              *)
(*   - demosaic_rg8_x86 and its three 8-bit channel routines.              *)
(* Slices are functions over 0..len-1.  An f32 is the pair <<m, e>> that   *)
(* stands for m * 2^e with 2^23 <= m < 2^24, or <<0, 0>> for 0.0; the      *)
(* float operations round to nearest, ties to even, as IEEE-754 binary32.  *)
(***************************************************************************)
EXTENDS Integers, Sequences, FiniteSets, TLC

VARIABLES
  rows,     \* DebayerRG8.rows / height
  cols,     \* DebayerRG8.cols / width
  data,     \* the mosaic, a function 0..rows*cols-1 -> 0..255
  row_idx,  \* DebayerRG8.row_idx
  col_idx,  \* DebayerRG8.col_idx
  ret,      \* what the last call of next() returned
  items,    \* the pixels next() has returned so far, in order
  centres,  \* write_idx of each of those calls
  nbrs,     \* the neighbour indices the last call of next() resolved
  reads,    \* the indices the last call of next() passed to get
  nones,    \* how many times next() has returned None
  vec,      \* the packed float output handed to demosaic_rg8
  img,      \* the rgb::Image<u8> handed to demosaic_rg8_x86: planes r, g, b and h, w
  build,    \* "debug" (overflow checks on) or "release" (u8 sums wrap)
  status,   \* of the eager call: "ready", "returned" or "panicked"
  trace,    \* what the eager call wrote and what it touched out of bounds
  reader,   \* the PNG reader handed to read_rgba8, read_rgb8 or read_gray8
  result,   \* which of the three was called and the Result it returned
  conv,     \* an 8-bit sRGB value on its way to linear and back
  writer    \* a call of write_gray8, write_grayalpha8, write_rgb8 or write_rgba8

vars == <<rows, cols, data, row_idx, col_idx, ret, items, centres,
          nbrs, reads, nones, vec, img, build, status, trace, writer, reader, result, conv>>

-----------------------------------------------------------------------------
(* Bounds of the model *)

\* mosaics of up to MaxRows rows ...
MaxRows == 5
\* ... and up to MaxCols columns are iterated
MaxCols == 6
\* calls of next() that return None
MaxNone == 2
\* seeds of the pseudo-random mosaics
MaxSeed == 2
\* the 8-bit routine runs on 2..MaxHeight rows ...
MaxHeight == 4
\* ... and on 32..32+MaxExtraCols columns, and on the widths of WiderCols
MaxExtraCols == 3

-----------------------------------------------------------------------------
(* f32 arithmetic *)

TwoTo23 == 2^23
TwoTo24 == 2^24

\* the number of bits of n > 0
BitLen(n) == CHOOSE k \in 1..26 : 2^(k-1) <= n /\ n < 2^k

\* (T + r/D) * 2^e rounded to nearest, ties to even; 2^23 <= T < 2^24, 0 <= r < D
RoundNearestEven(T, r, D, e) ==
  LET up == (2 * r > D) \/ (2 * r = D /\ T % 2 = 1)
      m  == IF up THEN T + 1 ELSE T
  IN IF m = TwoTo24 THEN <<TwoTo23, e + 1>> ELSE <<m, e>>

\* a + b in f32, for a, b >= 0
F32Add(a, b) ==
  IF a[1] = 0 THEN b
  ELSE IF b[1] = 0 THEN a
  ELSE LET hi == IF a[2] >= b[2] THEN a ELSE b
           lo == IF a[2] >= b[2] THEN b ELSE a
           d  == hi[2] - lo[2]
       IN IF d > 25 THEN hi
          ELSE LET D == 2^d
                   T == hi[1] + (lo[1] \div D)
                   r == lo[1] % D
               IN IF T < TwoTo24
                    THEN RoundNearestEven(T, r, D, hi[2])
                    ELSE RoundNearestEven(T \div 2, (T % 2) * D + r, 2 * D, hi[2] + 1)

\* a slip: every average weighted 0.5
F32ScaleHalf(k, x) == IF x[1] = 0 THEN x ELSE <<x[1], x[2] - 1>>

\* 0.5 * x (k = 1) and 0.25 * x (k = 2): exact, the operands are far from underflow
F32Scale(k, x) == IF x[1] = 0 THEN x ELSE <<x[1], x[2] - k>>

\* the significand of NORM = 1.0 / (u8::MAX as f32) = 0x3B808081 = NORM_M * 2^-31
NORM_M == 8421505

\* a slip: NORM = 1.0 / 256.0
F32NormBy256(v) == IF v = 0 THEN <<0, 0>> ELSE <<v * 2^(24 - BitLen(v)), BitLen(v) - 32>>

\* f32::from(v) * NORM: the product v * NORM_M, kept as A * 256 + B, rounded to 24 bits
F32Norm(v) ==
  IF v = 0 THEN <<0, 0>>
  ELSE LET lo == v * (NORM_M % 256)
           A  == v * (NORM_M \div 256) + (lo \div 256)
           B  == lo % 256
           s  == BitLen(A) - 16
           D  == 2^s
       IN RoundNearestEven(A * 2^(8 - s) + (B \div D), B % D, D, s - 31)

\* iter::get: the sample at idx, normalised; get_unchecked outside the slice is
\* undefined behaviour and reads whatever byte junk lies there
get(s, idx, junk) == F32Norm(IF idx \in DOMAIN s THEN s[idx] ELSE junk)

-----------------------------------------------------------------------------
(* Mosaics *)

Byte == 0..255

\* the mosaic of the test debayer_rg, [1, 2, 3, 4], continued to any length
RampMosaic(n) == [i \in 0..(n - 1) |-> (i + 1) % 256]

\* the mosaic of test_debayer_green_channel: ((i + 1) << (i % 2)) as u8
ShiftMosaic(n) == [i \in 0..(n - 1) |-> ((i + 1) * (IF i % 2 = 0 THEN 1 ELSE 2)) % 256]

ConstMosaic(n, v) == [i \in 0..(n - 1) |-> v]

\* bright samples, whose sums pass 255
BrightMosaic(n) == [i \in 0..(n - 1) |-> 255 - ((i * 7) % 100)]

\* a slow staircase: samples two apart differ by one, so their sum is odd
StepMosaic(n) == [i \in 0..(n - 1) |-> (i \div 2) % 256]

\* a scrambled mosaic
SeedMosaic(n, seed) == [i \in 0..(n - 1) |-> (i * i * 37 + i * 101 + seed * 59 + 11) % 256]

\* what a read outside a buffer may find
JunkBytes == {0, 255}

\* constants every size is tried with
ConstVals == {0, 1, 17, 127, 128, 255}

\* sample values of the 2x2 mosaics [r, g1, g2, b]
TileVals == {0, 1, 2, 128, 255}

Mosaics(r, c) ==
  LET n == r * c IN
  {RampMosaic(n), ShiftMosaic(n), BrightMosaic(n)}
    \cup {ConstMosaic(n, v) : v \in ConstVals}
    \cup {SeedMosaic(n, s) : s \in 0..MaxSeed}
    \cup (IF n = 4
            THEN {ConstMosaic(n, v) : v \in Byte}
                   \cup {[i \in 0..3 |-> t[i + 1]] : t \in TileVals \X TileVals \X TileVals \X TileVals}
            ELSE {})

-----------------------------------------------------------------------------
(* iter::DebayerRG8 *)

None == [tag |-> "None"]
Some(px) == [tag |-> "Some", px |-> px]
Panic == [tag |-> "panic"]

\* a slip: no mirroring at the border
NeighboursNoMirror(idx, size) == <<idx - 1, idx, idx + 1>>

\* a slip: the border clamps to itself instead of mirroring
NeighboursClamp(idx, size) ==
  IF idx = 0 THEN <<0, 0, 1>>
  ELSE IF idx < size - 1 THEN <<idx - 1, idx, idx + 1>>
  ELSE IF idx = size - 1 THEN <<size - 2, size - 1, size - 1>>
  ELSE <<>>

\* the (prev, curr, next) index of next() on one axis; <<>> is unreachable!()
Neighbours(idx, size) ==
  IF idx = 0 THEN <<1, 0, 1>>
  ELSE IF 1 <= idx /\ idx < size - 1 THEN <<idx - 1, idx, idx + 1>>
  ELSE IF idx = size - 1 THEN <<size - 2, size - 1, size - 2>>
  ELSE <<>>

\* the indices get is called with, per parity case, in the order of the code
PixelReads(pr, cr, nr, pc, cc, nc, n) ==
  LET w == cr * n + cc IN
  IF cr % 2 = 0
    THEN IF cc % 2 = 0
           THEN <<w, cr * n + pc, pr * n + cc, cr * n + nc, nr * n + cc,
                  pr * n + pc, pr * n + nc, nr * n + pc, nr * n + nc>>
           ELSE <<cr * n + pc, cr * n + nc, w, pr * n + cc, nr * n + cc>>
    ELSE IF cc % 2 = 0
           THEN <<pr * n + cc, nr * n + cc, w, cr * n + pc, cr * n + nc>>
           ELSE <<pr * n + pc, pr * n + nc, nr * n + pc, nr * n + nc,
                  pr * n + cc, nr * n + cc, cr * n + pc, cr * n + nc, w>>

Sum2(a, b) == F32Add(a, b)

\* a slip: the fourth neighbour is left out
Sum4Short(a, b, c, d) == F32Add(F32Add(a, b), c)

Sum4(a, b, c, d) == F32Add(F32Add(F32Add(a, b), c), d)

\* the pixel of next(): s is the mosaic, n = cols
PixelOf(s, pr, cr, nr, pc, cc, nc, n, junk) ==
  LET w == cr * n + cc IN
  IF cr % 2 = 0
    THEN IF cc % 2 = 0
           THEN <<get(s, w, junk),
                  F32Scale(2, Sum4(get(s, cr * n + pc, junk), get(s, pr * n + cc, junk),
                                   get(s, cr * n + nc, junk), get(s, nr * n + cc, junk))),
                  F32Scale(2, Sum4(get(s, pr * n + pc, junk), get(s, pr * n + nc, junk),
                                   get(s, nr * n + pc, junk), get(s, nr * n + nc, junk)))>>
           ELSE <<F32Scale(1, Sum2(get(s, cr * n + pc, junk), get(s, cr * n + nc, junk))),
                  get(s, w, junk),
                  F32Scale(1, Sum2(get(s, pr * n + cc, junk), get(s, nr * n + cc, junk)))>>
    ELSE IF cc % 2 = 0
           THEN <<F32Scale(1, Sum2(get(s, pr * n + cc, junk), get(s, nr * n + cc, junk))),
                  get(s, w, junk),
                  F32Scale(1, Sum2(get(s, cr * n + pc, junk), get(s, cr * n + nc, junk)))>>
           ELSE <<F32Scale(2, Sum4(get(s, pr * n + pc, junk), get(s, pr * n + nc, junk),
                                   get(s, nr * n + pc, junk), get(s, nr * n + nc, junk))),
                  F32Scale(2, Sum4(get(s, pr * n + cc, junk), get(s, nr * n + cc, junk),
                                   get(s, cr * n + pc, junk), get(s, cr * n + nc, junk))),
                  get(s, w, junk)>>

\* a slip: the end of the last row is treated like the end of any row
AdvanceOverrun(ri, ci, nrows, ncols) ==
  IF ci + 1 = ncols THEN <<ri + 1, 0>> ELSE <<ri, ci + 1>>

\* a slip: the cursor walks down the columns
AdvanceColumnMajor(ri, ci, nrows, ncols) ==
  IF ri + 1 = nrows
    THEN IF ci + 1 # ncols THEN <<0, ci + 1>> ELSE <<ri + 1, ci + 1>>
    ELSE <<ri + 1, ci>>

\* a slip: the cursor starts over after the last pixel
AdvanceWrap(ri, ci, nrows, ncols) ==
  IF ci + 1 = ncols
    THEN IF ri + 1 # nrows THEN <<ri + 1, 0>> ELSE <<0, 0>>
    ELSE <<ri, ci + 1>>

\* a slip: col_idx is never set back to 0 at the end of a row
AdvanceNoReset(ri, ci, nrows, ncols) ==
  IF ci + 1 = ncols THEN <<ri + 1, ci + 1>> ELSE <<ri, ci + 1>>

\* the cursor after a call that returned Some
Advance(ri, ci, nrows, ncols) ==
  IF ci + 1 = ncols
    THEN IF ri + 1 # nrows THEN <<ri + 1, 0>> ELSE <<ri + 1, ci + 1>>
    ELSE <<ri, ci + 1>>

\* one call of next() on the iterator it = [row_idx, col_idx, rows, cols, data]:
\* the iterator after the call, what the call returned, and what it touched
IterNext(it, junk) ==
  LET rn == Neighbours(it.row_idx, it.rows)
      cn == Neighbours(it.col_idx, it.cols)
  IN IF it.row_idx = it.rows /\ it.col_idx = it.cols
       THEN [it |-> it, ret |-> None, nbrs |-> <<>>, reads |-> <<>>, centre |-> -1]
     ELSE IF rn = <<>> \/ cn = <<>>
       THEN [it |-> it, ret |-> Panic, nbrs |-> <<>>, reads |-> <<>>, centre |-> -1]
     ELSE LET cur == Advance(it.row_idx, it.col_idx, it.rows, it.cols) IN
          [it |-> [it EXCEPT !.row_idx = cur[1], !.col_idx = cur[2]],
           ret |-> Some(PixelOf(it.data, rn[1], rn[2], rn[3], cn[1], cn[2], cn[3], it.cols, junk)),
           nbrs |-> <<rn, cn>>,
           reads |-> PixelReads(rn[1], rn[2], rn[3], cn[1], cn[2], cn[3], it.cols),
           centre |-> rn[2] * it.cols + cn[2]]

\* DebayerRG8::new
NewIter(s, r, c) == [row_idx |-> 0, col_idx |-> 0, rows |-> r, cols |-> c, data |-> s]

-----------------------------------------------------------------------------
(* demosaic_rg8, the eager float routine *)

\* DebayerRG8 iterated to completion: the items next() returns until it stops
RECURSIVE Collect(_, _, _)
Collect(it, acc, junk) ==
  LET res == IterNext(it, junk)
  IN IF res.ret.tag = "Some" THEN Collect(res.it, Append(acc, res.ret.px), junk) ELSE acc

\* tmpf: the 4x4 block of normalised samples around the tile at (ri, ci), rows
\* ri-1..ri+2 and columns ci-1..ci+2
TileOf(s, ri, ci, n, junk) ==
  [k \in 0..15 |-> get(s, (ri - 1 + (k \div 4)) * n + (ci - 1) + (k % 4), junk)]

\* the twelve stores of one tile, as a function from offsets of vec to values
TileStores(t, ri, ci, n) ==
  LET o00 == 3 * (ri * n + ci)
      o01 == 3 * (ri * n + ci + 1)
      o10 == 3 * ((ri + 1) * n + ci)
      o11 == 3 * ((ri + 1) * n + ci + 1)
  IN   (o00     :> t[5])
    @@ (o00 + 1 :> F32Scale(2, Sum4(t[1], t[4], t[6], t[9])))
    @@ (o00 + 2 :> F32Scale(2, Sum4(t[0], t[2], t[8], t[10])))
    @@ (o01     :> F32Scale(1, Sum2(t[5], t[7])))
    @@ (o01 + 1 :> t[6])
    @@ (o01 + 2 :> F32Scale(1, Sum2(t[2], t[10])))
    @@ (o10     :> F32Scale(1, Sum2(t[5], t[13])))
    @@ (o10 + 1 :> t[9])
    @@ (o10 + 2 :> F32Scale(1, Sum2(t[8], t[10])))
    @@ (o11     :> F32Scale(2, Sum4(t[5], t[7], t[13], t[15])))
    @@ (o11 + 1 :> F32Scale(2, Sum4(t[6], t[9], t[11], t[14])))
    @@ (o11 + 2 :> t[10])

\* the loop over col_idx of one pair of rows
RECURSIVE DemosaicCols(_, _, _, _, _, _)
DemosaicCols(v, s, ri, ci, n, junk) ==
  IF ci < n - 2
    THEN LET w == TileStores(TileOf(s, ri, ci, n, junk), ri, ci, n)
         IN DemosaicCols([k \in DOMAIN v |-> IF k \in DOMAIN w THEN w[k] ELSE v[k]],
                         s, ri, ci + 2, n, junk)
    ELSE v

\* the loop over row_idx
RECURSIVE DemosaicRows(_, _, _, _, _, _)
DemosaicRows(v, s, ri, nrows, n, junk) ==
  IF ri < nrows - 2
    THEN DemosaicRows(DemosaicCols(v, s, ri, 2, n, junk), s, ri + 2, nrows, n, junk)
    ELSE v

\* demosaic_rg8(data, width, height, vec): vec after the call
demosaic_rg8(s, width, height, v, junk) == DemosaicRows(v, s, 2, height, width, junk)

-----------------------------------------------------------------------------
(* Bytes and vector registers *)

\* a register is a function from byte positions (0 the lowest address) to bytes
Lanes16 == 0..15
Lanes32 == 0..31

Bit(x, i) == (x \div 2^i) % 2

ByteAnd(a, b) ==
  IF a = 255 THEN b
  ELSE IF b = 255 THEN a
  ELSE IF a = 0 \/ b = 0 THEN 0
  ELSE   Bit(a, 0) * Bit(b, 0)       + 2 * Bit(a, 1) * Bit(b, 1)
       + 4 * Bit(a, 2) * Bit(b, 2)   + 8 * Bit(a, 3) * Bit(b, 3)
       + 16 * Bit(a, 4) * Bit(b, 4)  + 32 * Bit(a, 5) * Bit(b, 5)
       + 64 * Bit(a, 6) * Bit(b, 6)  + 128 * Bit(a, 7) * Bit(b, 7)

ByteOr(a, b) == IF a = 0 THEN b ELSE IF b = 0 THEN a ELSE a + b - ByteAnd(a, b)

\* _mm_and_si128, _mm_or_si128
And(x, y) == [k \in DOMAIN x |-> ByteAnd(x[k], y[k])]
Or(x, y)  == [k \in DOMAIN x |-> ByteOr(x[k], y[k])]

\* _mm_slli_si128(x, n): bytes move n places up, zeros come in at the bottom
Slli(x, n) == [k \in Lanes16 |-> IF k >= n THEN x[k - n] ELSE 0]

\* _mm_srli_si128(x, n): bytes move n places down, zeros come in at the top
Srli(x, n) == [k \in Lanes16 |-> IF k + n <= 15 THEN x[k + n] ELSE 0]

\* a slip: the average that truncates
AvgTrunc(x, y) == [k \in DOMAIN x |-> (x[k] + y[k]) \div 2]

\* _mm_avg_epu8, _mm256_avg_epu8: (a + b + 1) >> 1 in every byte
Avg(x, y) == [k \in DOMAIN x |-> (x[k] + y[k] + 1) \div 2]

\* _mm_set1_epi16(0x00ff) and _mm_set1_epi16(0xff00)
M1 == [k \in Lanes16 |-> IF k % 2 = 0 THEN 255 ELSE 0]
M2 == [k \in Lanes16 |-> IF k % 2 = 0 THEN 0 ELSE 255]

\* _mm_setr_epi8(0xff, 0, ..., 0)
X0 == [k \in Lanes16 |-> IF k = 0 THEN 255 ELSE 0]

-----------------------------------------------------------------------------
(* Raw memory: the mosaic behind p and the plane behind the output pointer *)

\* The state of a channel routine: o the plane, wr the indices of the plane
\* written so far, oob the accesses outside the mosaic or the plane (undefined
\* behaviour: such a read finds junk, such a write lands outside the plane),
\* halt whether the routine has panicked on an overflowing u8 addition.
NewChannel(plane) == [o |-> plane, wr |-> {}, oob |-> {}, halt |-> FALSE]

\* the byte at p.add(idx)
Peek(buf, idx, junk) == IF idx \in DOMAIN buf THEN buf[idx] ELSE junk

\* registers loaded from off: _mm_loadu_si128, _mm256_loadu_si256
Load(buf, off, lanes, junk) == [k \in lanes |-> Peek(buf, off + k, junk)]

\* the indices off..off+len-1 that lie outside buf, each tagged with what
OutOf(buf, what, off, len) == {<<what, k>> : k \in {x \in off..(off + len - 1) : x \notin DOMAIN buf}}

\* note the reads of len bytes of the mosaic p at off
ReadsData(st, p, off, len) ==
  IF st.halt THEN st ELSE [st EXCEPT !.oob = @ \cup OutOf(p, "read data", off, len)]

\* note the reads of len bytes of the plane at off
ReadsPlane(st, off, len) ==
  IF st.halt THEN st ELSE [st EXCEPT !.oob = @ \cup OutOf(st.o, "read plane", off, len)]

\* the bytes reg[k..] written into the plane o at off + k.., where they fit
RECURSIVE Blit(_, _, _, _, _)
Blit(o, off, reg, k, len) ==
  IF k = len THEN o
  ELSE Blit(IF off + k \in DOMAIN o THEN [o EXCEPT ![off + k] = reg[k]] ELSE o, off, reg, k + 1, len)

\* _mm_storeu_si128, _mm256_storeu_si256: reg is stored at off
Store(st, off, reg) ==
  IF st.halt THEN st
  ELSE LET len == Cardinality(DOMAIN reg) IN
       [st EXCEPT !.o = Blit(st.o, off, reg, 0, len),
                  !.wr = @ \cup {k \in off..(off + len - 1) : k \in DOMAIN st.o},
                  !.oob = @ \cup OutOf(st.o, "write plane", off, len)]

\* *ptr.add(off) = v
Put(st, off, v) ==
  IF st.halt THEN st
  ELSE IF off \in DOMAIN st.o
    THEN [st EXCEPT !.o = [@ EXCEPT ![off] = v], !.wr = @ \cup {off}]
    ELSE [st EXCEPT !.oob = @ \cup {<<"write plane", off>>}]

\* *ptr.add(off) = (a + ... ) / d on u8: a sum above 255 panics in a debug
\* build and wraps in a release build
PutAvg(st, off, sum, d, bld) ==
  IF st.halt THEN st
  ELSE IF sum > 255 /\ bld = "debug" THEN [st EXCEPT !.halt = TRUE]
  ELSE Put(st, off, (sum % 256) \div d)

-----------------------------------------------------------------------------
(* debayer_red_channel *)

\* while j + 32 <= cols: sixteen columns of row i at a time
RECURSIVE RedRowSimd(_, _, _, _, _, _)
RedRowSimd(st, p, i, j, n, junk) ==
  IF j + 32 <= n
    THEN LET r1 == Load(p, i * n + j, Lanes16, junk)
             r2 == Load(p, i * n + j + 16, Lanes16, junk)
             r3 == Slli(r1, 1)
             r4 == Or(Srli(r1, 1), Slli(r2, 15))
             r5 == Avg(r3, r4)
             r6 == Or(And(r1, M1), And(r5, M2))
         IN RedRowSimd(Store(ReadsData(st, p, i * n + j, 32), i * n + j, r6),
                       p, i, j + 16, n, junk)
    ELSE [st |-> st, j |-> j]

\* while j + 4 < cols
RECURSIVE RedRowBy4(_, _, _, _, _, _, _)
RedRowBy4(st, p, i, j, n, junk, bld) ==
  IF j + 4 < n /\ ~st.halt
    THEN LET r1 == Peek(p, i * n + j, junk)
             r2 == Peek(p, i * n + j + 2, junk)
             r3 == Peek(p, i * n + j + 4, junk)
             s0 == ReadsData(ReadsData(ReadsData(st, p, i * n + j, 1), p, i * n + j + 2, 1),
                             p, i * n + j + 4, 1)
             s1 == Put(s0, i * n + j, r1)
             s2 == PutAvg(s1, i * n + j + 1, r1 + r2, 2, bld)
             s3 == Put(s2, i * n + j + 2, r2)
             s4 == PutAvg(s3, i * n + j + 3, r2 + r3, 2, bld)
         IN RedRowBy4(s4, p, i, j + 4, n, junk, bld)
    ELSE [st |-> st, j |-> j]

\* while j + 2 < cols
RECURSIVE RedRowBy2(_, _, _, _, _, _, _)
RedRowBy2(st, p, i, j, n, junk, bld) ==
  IF j + 2 < n /\ ~st.halt
    THEN LET r1 == Peek(p, i * n + j, junk)
             r2 == Peek(p, i * n + j + 2, junk)
             s0 == ReadsData(ReadsData(st, p, i * n + j, 1), p, i * n + j + 2, 1)
             s1 == Put(s0, i * n + j, r1)
             s2 == PutAvg(s1, i * n + j + 1, r1 + r2, 2, bld)
         IN RedRowBy2(s2, p, i, j + 2, n, junk, bld)
    ELSE [st |-> st, j |-> j]

\* the horizontal pass: while i < rows, i += 2
RECURSIVE RedHorizontal(_, _, _, _, _, _, _)
RedHorizontal(st, p, i, nrows, n, junk, bld) ==
  IF i < nrows /\ ~st.halt
    THEN LET a == RedRowSimd(st, p, i, 0, n, junk)
             b == RedRowBy4(a.st, p, i, a.j, n, junk, bld)
             c == RedRowBy2(b.st, p, i, b.j, n, junk, bld)
         IN RedHorizontal(c.st, p, i + 2, nrows, n, junk, bld)
    ELSE st

\* the vertical pass, while j + 32 <= cols
RECURSIVE RedColSimd(_, _, _, _, _)
RedColSimd(st, i, j, n, junk) ==
  IF j + 32 <= n
    THEN LET r1 == Load(st.o, i * n + j, Lanes32, junk)
             r2 == Load(st.o, (i + 2) * n + j, Lanes32, junk)
             s0 == ReadsPlane(ReadsPlane(st, i * n + j, 32), (i + 2) * n + j, 32)
         IN RedColSimd(Store(s0, (i + 1) * n + j, Avg(r1, r2)), i, j + 32, n, junk)
    ELSE [st |-> st, j |-> j]

\* the vertical pass, while j < cols
RECURSIVE RedColScalar(_, _, _, _, _, _)
RedColScalar(st, i, j, n, junk, bld) ==
  IF j < n /\ ~st.halt
    THEN LET r1 == Peek(st.o, i * n + j, junk)
             r2 == Peek(st.o, (i + 2) * n + j, junk)
             s0 == ReadsPlane(ReadsPlane(st, i * n + j, 1), (i + 2) * n + j, 1)
         IN RedColScalar(PutAvg(s0, (i + 1) * n + j, r1 + r2, 2, bld), i, j + 1, n, junk, bld)
    ELSE st

\* the vertical pass: while i + 2 < rows, i += 2
RECURSIVE RedVertical(_, _, _, _, _, _)
RedVertical(st, i, nrows, n, junk, bld) ==
  IF i + 2 < nrows /\ ~st.halt
    THEN LET a == RedColSimd(st, i, 0, n, junk)
         IN RedVertical(RedColScalar(a.st, i, a.j, n, junk, bld), i + 2, nrows, n, junk, bld)
    ELSE st

debayer_red_channel(p, nrows, n, r, junk, bld) ==
  RedVertical(RedHorizontal(NewChannel(r), p, 0, nrows, n, junk, bld), 0, nrows, n, junk, bld)

-----------------------------------------------------------------------------
(* debayer_green_channel *)

\* while j + 32 <= cols: sixteen columns of rows i and i + 1 at a time
RECURSIVE GreenSimd(_, _, _, _, _, _, _)
GreenSimd(st, p, i, j, nrows, n, junk) ==
  IF j + 32 <= n
    THEN LET g1  == Load(p, i * n + j, Lanes16, junk)
             g2  == Load(p, (i + 1) * n + j, Lanes16, junk)
             g3  == IF j = 0
                      THEN Or(And(Srli(g1, 1), X0), Slli(g1, 1))
                      ELSE Or(Srli(Load(p, i * n + j - 16, Lanes16, junk), 15), Slli(g1, 1))
             g4  == Or(Slli(Load(p, (i + 1) * n + j + 16, Lanes16, junk), 15), Srli(g2, 1))
             g5  == And(Avg(Srli(g1, 1), g3), M1)
             g6  == And(Avg(Slli(g2, 1), g4), M2)
             g7  == Or(g5, And(g1, M2))
             g8  == Or(g6, And(g2, M1))
             g9  == IF i > 0 THEN Load(p, (i - 1) * n + j, Lanes16, junk) ELSE g2
             g10 == IF i + 2 < nrows THEN Load(p, (i + 2) * n + j, Lanes16, junk) ELSE g1
             g11 == Or(And(Avg(g7, Avg(g9, g2)), M1), And(g1, M2))
             g12 == Or(And(Avg(g8, Avg(g10, g1)), M2), And(g2, M1))
             s1  == ReadsData(ReadsData(st, p, i * n + j, 16), p, (i + 1) * n + j, 16)
             s2  == IF j = 0 THEN s1 ELSE ReadsData(s1, p, i * n + j - 16, 16)
             s3  == ReadsData(s2, p, (i + 1) * n + j + 16, 16)
             s4  == IF i > 0 THEN ReadsData(s3, p, (i - 1) * n + j, 16) ELSE s3
             s5  == IF i + 2 < nrows THEN ReadsData(s4, p, (i + 2) * n + j, 16) ELSE s4
         IN GreenSimd(Store(Store(s5, i * n + j, g11), (i + 1) * n + j, g12),
                      p, i, j + 16, nrows, n, junk)
    ELSE [st |-> st, j |-> j]

\* while j < cols, j += 2
RECURSIVE GreenScalar(_, _, _, _, _, _, _, _)
GreenScalar(st, p, i, j, nrows, n, junk, bld) ==
  IF j < n /\ ~st.halt
    THEN LET g1 == Peek(p, i * n + j + 1, junk)
             g2 == IF j > 0 THEN Peek(p, i * n + j - 1, junk) ELSE g1
             g3 == Peek(p, (i + 1) * n + j, junk)
             g4 == IF j + 2 < n THEN Peek(p, (i + 1) * n + j + 2, junk) ELSE g3
             g5 == IF i > 0 THEN Peek(p, (i - 1) * n + j, junk) ELSE g3
             g6 == IF i + 2 < nrows THEN Peek(p, (i + 2) * n + j + 1, junk) ELSE g1
             s1 == ReadsData(st, p, i * n + j + 1, 1)
             s2 == IF j > 0 THEN ReadsData(s1, p, i * n + j - 1, 1) ELSE s1
             s3 == ReadsData(s2, p, (i + 1) * n + j, 1)
             s4 == IF j + 2 < n THEN ReadsData(s3, p, (i + 1) * n + j + 2, 1) ELSE s3
             s5 == IF i > 0 THEN ReadsData(s4, p, (i - 1) * n + j, 1) ELSE s4
             s6 == IF i + 2 < nrows THEN ReadsData(s5, p, (i + 2) * n + j + 1, 1) ELSE s5
             w1 == PutAvg(s6, i * n + j, g1 + g2 + g3 + g5, 4, bld)
             w2 == Put(w1, i * n + j + 1, g1)
             w3 == Put(w2, (i + 1) * n + j, g3)
             w4 == PutAvg(w3, (i + 1) * n + j + 1, g1 + g3 + g4 + g6, 4, bld)
         IN GreenScalar(w4, p, i, j + 2, nrows, n, junk, bld)
    ELSE st

\* while i < rows, i += 2
RECURSIVE GreenRows(_, _, _, _, _, _, _)
GreenRows(st, p, i, nrows, n, junk, bld) ==
  IF i < nrows /\ ~st.halt
    THEN LET a == GreenSimd(st, p, i, 0, nrows, n, junk)
         IN GreenRows(GreenScalar(a.st, p, i, a.j, nrows, n, junk, bld),
                      p, i + 2, nrows, n, junk, bld)
    ELSE st

debayer_green_channel(p, nrows, n, g, junk, bld) ==
  GreenRows(NewChannel(g), p, 0, nrows, n, junk, bld)

-----------------------------------------------------------------------------
(* debayer_blue_channel *)

\* while j + 16 <= cols: sixteen columns of row i + 1 at a time; b0 is the
\* register of the previous sixteen
RECURSIVE BlueRowSimd(_, _, _, _, _, _, _)
BlueRowSimd(st, p, b0, i, j, n, junk) ==
  IF j + 16 <= n
    THEN LET b1 == Load(p, (i + 1) * n + j, Lanes16, junk)
             b2 == Srli(b1, 1)
             b3 == Or(Slli(b1, 1), Srli(b0, 15))
             b4 == Avg(b2, b3)
             b5 == Or(And(b1, M2), And(b4, M1))
         IN BlueRowSimd(Store(ReadsData(st, p, (i + 1) * n + j, 16), (i + 1) * n + j, b5),
                        p, b1, i, j + 16, n, junk)
    ELSE [st |-> st, j |-> j]

\* while j + 3 < cols
RECURSIVE BlueRowBy4(_, _, _, _, _, _, _)
BlueRowBy4(st, p, i, j, n, junk, bld) ==
  IF j + 3 < n /\ ~st.halt
    THEN LET b1 == Peek(p, (i + 1) * n + j - 1, junk)
             b2 == Peek(p, (i + 1) * n + j + 1, junk)
             b3 == Peek(p, (i + 1) * n + j + 3, junk)
             s0 == ReadsData(ReadsData(ReadsData(st, p, (i + 1) * n + j - 1, 1),
                                       p, (i + 1) * n + j + 1, 1),
                             p, (i + 1) * n + j + 3, 1)
             s1 == PutAvg(s0, (i + 1) * n + j, b1 + b2, 2, bld)
             s2 == Put(s1, (i + 1) * n + j + 1, b2)
             s3 == PutAvg(s2, (i + 1) * n + j + 2, b2 + b3, 2, bld)
             s4 == Put(s3, (i + 1) * n + j + 3, b3)
         IN BlueRowBy4(s4, p, i, j + 4, n, junk, bld)
    ELSE [st |-> st, j |-> j]

\* while j + 1 < cols
RECURSIVE BlueRowBy2(_, _, _, _, _, _, _)
BlueRowBy2(st, p, i, j, n, junk, bld) ==
  IF j + 1 < n /\ ~st.halt
    THEN LET b1 == Peek(p, (i + 1) * n + j - 1, junk)
             b2 == Peek(p, (i + 1) * n + j + 1, junk)
             s0 == ReadsData(ReadsData(st, p, (i + 1) * n + j - 1, 1), p, (i + 1) * n + j + 1, 1)
             s1 == PutAvg(s0, (i + 1) * n + j, b1 + b2, 2, bld)
             s2 == Put(s1, (i + 1) * n + j + 1, b2)
         IN BlueRowBy2(s2, p, i, j + 2, n, junk, bld)
    ELSE [st |-> st, j |-> j]

\* the horizontal pass: while i < rows, i += 2
RECURSIVE BlueHorizontal(_, _, _, _, _, _, _)
BlueHorizontal(st, p, i, nrows, n, junk, bld) ==
  IF i < nrows /\ ~st.halt
    THEN LET b0 == Slli(Load(p, 1 * n + 0, Lanes16, junk), 14)
             a  == BlueRowSimd(ReadsData(st, p, 1 * n + 0, 16), p, b0, i, 0, n, junk)
             b  == BlueRowBy4(a.st, p, i, a.j, n, junk, bld)
             c  == BlueRowBy2(b.st, p, i, b.j, n, junk, bld)
         IN BlueHorizontal(c.st, p, i + 2, nrows, n, junk, bld)
    ELSE st

\* the vertical pass, while j + 32 <= cols
RECURSIVE BlueColSimd(_, _, _, _, _)
BlueColSimd(st, i, j, n, junk) ==
  IF j + 32 <= n
    THEN LET above == IF i = 0 THEN 1 * n + j ELSE (i - 1) * n + j
             b1 == Load(st.o, above, Lanes32, junk)
             b2 == Load(st.o, (i + 1) * n + j, Lanes32, junk)
             s0 == ReadsPlane(ReadsPlane(st, above, 32), (i + 1) * n + j, 32)
         IN BlueColSimd(Store(s0, i * n + j, Avg(b1, b2)), i, j + 32, n, junk)
    ELSE [st |-> st, j |-> j]

\* the vertical pass, while j < cols; b3 is carried from one column to the next
RECURSIVE BlueColScalar(_, _, _, _, _, _, _)
BlueColScalar(st, b3, i, j, n, junk, bld) ==
  IF j < n /\ ~st.halt
    THEN LET b4 == Peek(st.o, (i + 1) * n + j, junk)
             s0 == ReadsPlane(st, (i + 1) * n + j, 1)
         IN BlueColScalar(PutAvg(s0, i * n + j, b3 + b4, 2, bld), b4, i, j + 1, n, junk, bld)
    ELSE st

\* the vertical pass: while i + 1 < rows, i += 2
RECURSIVE BlueVertical(_, _, _, _, _, _)
BlueVertical(st, i, nrows, n, junk, bld) ==
  IF i + 1 < nrows /\ ~st.halt
    THEN LET a     == BlueColSimd(st, i, 0, n, junk)
             first == IF i = 0 THEN (0 + 1) * n + a.j ELSE (i - 1) * n + a.j
             b3    == Peek(a.st.o, first, junk)
         IN BlueVertical(BlueColScalar(ReadsPlane(a.st, first, 1), b3, i, a.j, n, junk, bld),
                         i + 2, nrows, n, junk, bld)
    ELSE st

debayer_blue_channel(p, nrows, n, b, junk, bld) ==
  BlueVertical(BlueHorizontal(NewChannel(b), p, 0, nrows, n, junk, bld), 0, nrows, n, junk, bld)

-----------------------------------------------------------------------------
(* demosaic_rg8_x86 *)

\* a slip: a resize that grows a short plane and keeps a long one as it is
ResizeGrowOnly(v, len) ==
  [k \in (0..(len - 1)) \cup DOMAIN v |-> IF k \in DOMAIN v THEN v[k] ELSE 0]

\* MiniVec::resize(len, 0): truncated, or grown with zeros
Resize(v, len) == [k \in 0..(len - 1) |-> IF k \in DOMAIN v THEN v[k] ELSE 0]

\* a routine that never runs because an earlier one panicked: the panic unwinds
\* through demosaic_rg8_x86 and the plane keeps its bytes
Unwound(plane) == [NewChannel(plane) EXCEPT !.halt = TRUE]

-----------------------------------------------------------------------------
(* png.rs: reading 8-bit images *)

\* images of up to MaxPngWidth columns ...
MaxPngWidth == 3
\* ... and up to MaxPngHeight rows are decoded
MaxPngHeight == 3

\* ::png::ColorType and ::png::BitDepth as OutputInfo reports them
ColorTypes == {"Grayscale", "RGB", "Indexed", "GrayscaleAlpha", "RGBA"}
BitDepths == {"One", "Two", "Four", "Eight", "Sixteen"}

\* samples per pixel in a row the decoder delivers
Samples(color_type) ==
  CASE color_type = "Grayscale" -> 1
    [] color_type = "GrayscaleAlpha" -> 2
    [] color_type = "RGB" -> 3
    [] color_type = "RGBA" -> 4
    [] OTHER -> 1

\* the byte at position p of the decoded stream; every position of a small
\* image holds a different value
PngByte(p) == (p * 37 + 11) % 256

\* the readers a caller may hand over.  info says whether read_info succeeds;
\* fail_row is the call of next_row that fails, counted from 0 (-1: none;
\* height: the call after the last row)
Readers ==
  {rd \in [info : {"ok", "err"}, color_type : ColorTypes, bit_depth : BitDepths,
           width : 1..MaxPngWidth, height : 1..MaxPngHeight,
           fail_row : (-1)..MaxPngHeight] :
     /\ rd.fail_row <= rd.height
     /\ rd.info = "err" =>
          /\ rd.color_type = "RGBA" /\ rd.bit_depth = "Eight"
          /\ rd.width = 1 /\ rd.height = 1 /\ rd.fail_row = -1}

\* row i of the image as the decoder delivers it: width pixels of
\* Samples(color_type) bytes each, rows in order
DecodedRow(rd, i) ==
  LET n == rd.width * Samples(rd.color_type)
  IN [j \in 1..n |-> PngByte(i * n + j - 1)]

\* png_reader.next_row(), the i-th call
next_row(rd, i) ==
  IF i = rd.fail_row THEN [tag |-> "Err"]
  ELSE IF i >= rd.height THEN [tag |-> "None"]
  ELSE [tag |-> "Some", row |-> DecodedRow(rd, i)]

\* row.chunks_exact(n): the full chunks of n bytes, a remainder is left out
chunks_exact(row, n) ==
  [c \in 1..(Len(row) \div n) |-> SubSeq(row, (c - 1) * n + 1, c * n)]

\* minivec::mini_vec![0_u8; size]
mini_vec(size) == [k \in 0..(size - 1) |-> 0]

\* the smaller of two numbers
Least(a, b) == IF a <= b THEN a ELSE b

\* a slip: the pixels zipped first, (&mut iter).zip(row.chunks_exact(..)), so
\* the end of a row takes one pixel from the iterator and drops it
ZipRowIterFirst(planes, cursor, row, num_channels) ==
  LET chunks == chunks_exact(row, num_channels)
      size == Cardinality(DOMAIN planes[1])
      n == Least(Len(chunks), size - cursor)
  IN [planes |-> [p \in DOMAIN planes |->
                   [k \in DOMAIN planes[p] |->
                     IF k >= cursor /\ k < cursor + n /\ p <= num_channels
                     THEN chunks[k - cursor + 1][p]
                     ELSE planes[p][k]]],
      cursor |-> Least(cursor + n + 1, size),
      panic |-> n > 0 /\ Len(planes) > num_channels]

\* row.chunks_exact(num_channels).zip(&mut iter).for_each(..): chunk c of the
\* row is stored at the iterator's position; plane p takes chunk[p - 1].  Zip
\* asks the chunks first, so a row that ends consumes no pixel, and the
\* iterator ends when the planes are full.  chunk[p - 1] panics out of range.
ZipRow(planes, cursor, row, num_channels) ==
  LET chunks == chunks_exact(row, num_channels)
      size == Cardinality(DOMAIN planes[1])
      n == Least(Len(chunks), size - cursor)
  IN [planes |-> [p \in DOMAIN planes |->
                   [k \in DOMAIN planes[p] |->
                     IF k >= cursor /\ k < cursor + n /\ p <= num_channels
                     THEN chunks[k - cursor + 1][p]
                     ELSE planes[p][k]]],
      cursor |-> cursor + n,
      panic |-> n > 0 /\ Len(planes) > num_channels]

\* while let Some(row) = png_reader.next_row()? { .. } from the i-th call on
RECURSIVE ReadRows(_, _, _, _, _)
ReadRows(rd, i, planes, cursor, num_channels) ==
  LET nr == next_row(rd, i) IN
  IF nr.tag = "Err" THEN [tag |-> "Err", err |-> "Decoding"]
  ELSE IF nr.tag = "None" THEN [tag |-> "Ok", planes |-> planes]
  ELSE LET z == ZipRow(planes, cursor, nr.row, num_channels)
       IN IF z.panic THEN [tag |-> "panic"]
          ELSE ReadRows(rd, i + 1, z.planes, z.cursor, num_channels)

\* the two early returns after read_info: the colour type is tested first
CheckHeaderDepthFirst(color_type, bit_depth, accepted) ==
  IF bit_depth # "Eight" THEN "InvalidBitDepth"
  ELSE IF color_type \notin accepted THEN "InvalidColorType"
  ELSE "ok"

CheckHeader(color_type, bit_depth, accepted) ==
  IF color_type \notin accepted THEN "InvalidColorType"
  ELSE IF bit_depth # "Eight" THEN "InvalidBitDepth"
  ELSE "ok"

\* num_channels of read_rgb8 ...
rgb_num_channelsNoAlpha(color_type) == 3

rgb_num_channels(color_type) == IF color_type = "RGBA" THEN 4 ELSE 3

\* ... and of read_gray8
gray_num_channels(color_type) == IF color_type = "GrayscaleAlpha" THEN 2 ELSE 1

\* the common body of the three readers: read_info()?, the header tests, the
\* planes, the row loop
ReadPlanes(rd, accepted, num_planes, num_channels) ==
  IF rd.info = "err" THEN [tag |-> "Err", err |-> "Decoding"]
  ELSE LET h == CheckHeader(rd.color_type, rd.bit_depth, accepted) IN
       IF h # "ok" THEN [tag |-> "Err", err |-> h]
       ELSE ReadRows(rd, 0, [p \in 1..num_planes |-> mini_vec(rd.height * rd.width)],
                     0, num_channels)

\* read_rgba8(r)
read_rgba8(rd) ==
  LET res == ReadPlanes(rd, {"RGBA"}, 4, 4) IN
  IF res.tag # "Ok" THEN res
  ELSE [tag |-> "Ok",
        image |-> [r |-> res.planes[1], g |-> res.planes[2], b |-> res.planes[3],
                   a |-> res.planes[4], h |-> rd.height, w |-> rd.width]]

\* read_rgb8(r)
read_rgb8(rd) ==
  LET res == ReadPlanes(rd, {"RGBA", "RGB"}, 3, rgb_num_channels(rd.color_type)) IN
  IF res.tag # "Ok" THEN res
  ELSE [tag |-> "Ok",
        image |-> [r |-> res.planes[1], g |-> res.planes[2], b |-> res.planes[3],
                   h |-> rd.height, w |-> rd.width]]

\* read_gray8(r)
read_gray8(rd) ==
  LET res == ReadPlanes(rd, {"Grayscale", "GrayscaleAlpha"}, 1,
                        gray_num_channels(rd.color_type)) IN
  IF res.tag # "Ok" THEN res
  ELSE [tag |-> "Ok", image |-> [v |-> res.planes[1], h |-> rd.height, w |-> rd.width]]

-----------------------------------------------------------------------------
(* png.rs: writing 8-bit images *)

\* the calls a caller may make: an image of width by height pixels and an
\* iterator that yields len pixels, fewer or more than width * height;
\* header and encode say whether write_header and write_image_data succeed
Writers ==
  {w \in [pc : {"call"}, width : 1..MaxPngWidth, height : 1..MaxPngHeight,
          len : 0..(MaxPngWidth * MaxPngHeight + 1),
          header : {"ok", "err"}, encode : {"ok", "err"}] :
     w.len <= w.width * w.height + 1}

\* a slip: the buffer sized by the pixels the iterator yields
WriteBufOfItems(pixels, num_channels, width, height) ==
  [i \in 0..(num_channels * Len(pixels) - 1) |->
     pixels[(i \div num_channels) + 1][(i % num_channels) + 1]]

\* mini_vec![0_u8; count] and buf.chunks_exact_mut(num_channels).zip(img)
\* .for_each(..): chunk k takes the channels of item k, in order, until the
\* chunks or the items end
WriteBuf(pixels, num_channels, width, height) ==
  LET count == num_channels * width * height
      n == Least(count \div num_channels, Len(pixels))
  IN [i \in DOMAIN mini_vec(count) |->
        IF i \div num_channels < n
        THEN pixels[(i \div num_channels) + 1][(i % num_channels) + 1]
        ELSE mini_vec(count)[i]]

-----------------------------------------------------------------------------
(* convert.rs: sRGB and linear values *)

\* powf is the platform's libm and not exact, and TLC's integers cannot hold
\* the bits of every f32 product, so an f32 of the conversion is modelled by
\* an enclosure: a pair [lo, hi] of fixed-point numbers with 28 fraction
\* bits that holds every value the f32 can have.  Each f32 operation widens
\* its exact enclosure by 1 / FxSlack of its magnitude, which covers the
\* rounding of the operation (2^-24), of a literal, and an error of several
\* ulps in powf.

\* 1.0 in fixed point
FxOne == 2^28

\* the half-word of the long multiplication
FxHalf == 2^14

\* the relative slack of one f32 operation is 1 / FxSlack
FxSlack == 2^20

\* floor(a * b / FxOne) for a, b in 0..(3 * FxOne), by half-words
FxWords(a, b) ==
  LET ah == a \div FxHalf
      al == a % FxHalf
      bh == b \div FxHalf
      bl == b % FxHalf
  IN ah * bh + ((ah * bl + al * bh) + ((al * bl) \div FxHalf)) \div FxHalf

\* a product rounded down ...
FxMulDown(a, b) == CHOOSE p \in {FxWords(x, y) : x \in {a}, y \in {b}} : TRUE

\* ... and rounded up
FxMulUp(a, b) ==
  CHOOSE p \in {IF x = 0 \/ y = 0 THEN 0 ELSE FxWords(x, y) + 1 : x \in {a}, y \in {b}} : TRUE

\* floor(d * 2^k / q) for 0 <= d < q <= 10^9: the first k bits of d / q
RECURSIVE FxBinary(_, _, _)
FxBinary(d, q, k) ==
  IF k = 0 THEN 0
  ELSE CHOOSE f \in {IF t >= q THEN 2^(k - 1) + FxBinary(t - q, q, k - 1)
                     ELSE FxBinary(t, q, k - 1) : t \in {2 * d}} : TRUE

\* the enclosure of every f32 within the slack of the exact range lo..hi
Widen(lo, hi) ==
  CHOOSE w \in {[lo |-> IF l >= 0 THEN l - ((l + FxSlack - 1) \div FxSlack)
                        ELSE l - (((-l) + FxSlack - 1) \div FxSlack),
                 hi |-> IF h >= 0 THEN h + ((h + FxSlack - 1) \div FxSlack)
                        ELSE h + (((-h) + FxSlack - 1) \div FxSlack)]
                : l \in {lo}, h \in {hi}} : TRUE

\* the f32 literal d / q, 0 <= d < q
Literal(d, q) == CHOOSE w \in {Widen(f, f + 1) : f \in {FxBinary(d, q, 28)}} : TRUE

\* u * (n + d / q) for an enclosure u >= 0 and the literal n + d / q
Times(u, n, d, q) ==
  CHOOSE w \in {Widen(n * u.lo + FxMulDown(u.lo, c.lo), n * u.hi + FxMulUp(u.hi, c.hi))
                : c \in {Literal(d, q)}} : TRUE

\* whether u <= the literal d / q: TRUE, FALSE, or both when the enclosure of
\* u reaches the literal
AtMost(u, d, q) ==
  LET c == Literal(d, q) IN
  {b \in BOOLEAN : IF b THEN u.lo <= c.hi ELSE u.hi > c.lo}

\* r^n rounded up and rounded down, n >= 1
RECURSIVE FxPowUp(_, _)
FxPowUp(r, n) == IF n = 1 THEN r ELSE FxMulUp(FxPowUp(r, n - 1), r)

RECURSIVE FxPowDown(_, _)
FxPowDown(r, n) == IF n = 1 THEN r ELSE FxMulDown(FxPowDown(r, n - 1), r)

\* the largest r in lo..(hi - 1) whose n-th power, rounded up, is at most z;
\* lo has the property and hi has not
RECURSIVE RootBelow(_, _, _, _)
RootBelow(z, n, lo, hi) ==
  IF hi - lo <= 1 THEN lo
  ELSE CHOOSE r \in {IF FxPowUp(mid, n) <= z THEN RootBelow(z, n, mid, hi)
                     ELSE RootBelow(z, n, lo, mid) : mid \in {(lo + hi) \div 2}} : TRUE

\* the smallest r in (lo + 1)..hi whose n-th power, rounded down, is at least z
RECURSIVE RootAbove(_, _, _, _)
RootAbove(z, n, lo, hi) ==
  IF hi - lo <= 1 THEN hi
  ELSE CHOOSE r \in {IF FxPowDown(mid, n) >= z THEN RootAbove(z, n, lo, mid)
                     ELSE RootAbove(z, n, mid, hi) : mid \in {(lo + hi) \div 2}} : TRUE

\* the exact range of the n-th root of an enclosure u >= 0; the root of a
\* number above 1 lies between 1 and the number
Root(u, n) ==
  CHOOSE w \in {[lo |-> IF l >= FxOne THEN FxOne ELSE RootBelow(l, n, 0, FxOne),
                 hi |-> IF h >= FxOne THEN h ELSE RootAbove(h, n, -1, FxOne)]
                : l \in {u.lo}, h \in {u.hi}} : TRUE

\* the exact range of the product of two enclosures >= 0
Product(u, v) == [lo |-> FxMulDown(u.lo, v.lo), hi |-> FxMulUp(u.hi, v.hi)]

\* u.powf(2.0): the exponent of a plain square
powf_2_0(u) ==
  CHOOSE w \in {Widen(p.lo, p.hi) : p \in {Product(y, y) : y \in {u}}} : TRUE

\* u.powf(2.4) for u >= 0: u^2 * (u^(1/5))^2.  The literal 2.4 is off 12/5
\* by less than 2^-23, which the slack covers.
powf_2_4(u) ==
  CHOOSE w \in {Widen(p.lo, p.hi)
                : p \in {Product(Product(v[1], v[1]), Product(v[2], v[2]))
                         : v \in {<<y, Root(y, 5)>> : y \in {u}}}} : TRUE

\* u.powf(0.416_666_66) for u >= 0: (u^(1/12))^5 with the twelfth root taken
\* as the cube root of the square root of the square root.  The literal is
\* off 5/12 by less than 2^-26.
powf_0_416(u) ==
  CHOOSE w \in {Widen(FxPowDown(t.lo, 5), FxPowUp(t.hi, 5))
                : t \in {Root(s, 3) : s \in {Root(q, 2) : q \in {Root(y, 2) : y \in {u}}}}}
    : TRUE

\* f32::from(u) * 0.003_921_569
srgb_unit(x) == CHOOSE w \in {Widen(x * c.lo, x * c.hi) : c \in {Literal(3921569, 10^9)}} : TRUE

\* (u + 0.055) * 0.947_867_3
srgb_base(u) ==
  CHOOSE w \in {Times(s, 0, 9478673, 10^7)
                : s \in {Widen(u.lo + c.lo, u.hi + c.hi) : c \in {Literal(55, 10^3)}}} : TRUE

\* srgb_to_linear(u): the enclosures of the f32 it can return, one for each
\* branch the comparison can take
srgb_to_linear(x) ==
  UNION {{IF le THEN Times(u, 0, 7739938, 10^8) ELSE powf_2_4(srgb_base(u))
          : le \in AtMost(u, 4045, 10^5)} : u \in {srgb_unit(x)}}

\* 1.055 * u.powf(0.416_666_66) - 0.055
srgb_curve(u) ==
  CHOOSE w \in {Widen(p.lo - c.hi, p.hi - c.lo)
                : p \in {Times(t, 1, 55, 10^3) : t \in {powf_0_416(u)}},
                  c \in {Literal(55, 10^3)}} : TRUE

\* (255.0 * u).round() as u8 for an enclosure within 0 <= u < 1: the values it
\* can give.  The product is taken with 16 fraction bits.
round_u8(u) ==
  LET p == Widen(255 * (u.lo \div 2^12), 255 * ((u.hi + 2^12 - 1) \div 2^12))
  IN ((2 * p.lo + 2^16 - 1) \div 2^17)..((2 * p.hi + 2^16 + 1) \div 2^17)

\* the three exits of linear_to_srgb for the value v of its first statement
srgb_exits(v) ==
  (IF v.hi >= FxOne THEN {255} ELSE {})
    \cup (IF v.lo < 0 THEN {0} ELSE {})
    \cup (IF v.lo < FxOne /\ v.hi >= 0
          THEN round_u8([lo |-> IF v.lo < 0 THEN 0 ELSE v.lo,
                         hi |-> IF v.hi >= FxOne THEN FxOne - 1 ELSE v.hi])
          ELSE {})

\* linear_to_srgb(u): the u8 values it can return
linear_to_srgb(u) ==
  UNION {srgb_exits(v)
         : v \in {IF le THEN Times(u, 12, 92, 10^2) ELSE srgb_curve(u)
                  : le \in AtMost(u, 31308, 10^7)}}

-----------------------------------------------------------------------------
(* convert.rs: linear RGB and HSV *)

\* An f32 of these two functions is the number n * 2^e, kept as <<n, e>> with n
\* odd, or <<0, 0>>; n carries the sign and |n| < 2^24.

\* n * 2^e with the factors of two of n moved to the exponent
Dyadic(n, e) ==
  LET RECURSIVE Strip(_, _)
      Strip(k, x) == IF k % 2 = 0 THEN Strip(k \div 2, x + 1) ELSE <<k, x>>
  IN IF n = 0 THEN <<0, 0>> ELSE Strip(n, e)

\* the f32 nearest to n * 2^e, ties to even, for |n| < 2^31
F32Of(n, e) ==
  LET a == IF n < 0 THEN -n ELSE n IN
  IF a < TwoTo24 THEN Dyadic(n, e)
  ELSE LET s == CHOOSE k \in 1..7 : a \div 2^k < TwoTo24
           m == RoundNearestEven(a \div 2^s, a % 2^s, 2^s, e + s)
       IN Dyadic(IF n < 0 THEN -m[1] ELSE m[1], m[2])

\* a + b in f32
F32Plus(a, b) ==
  IF a[1] = 0 THEN b
  ELSE IF b[1] = 0 THEN a
  ELSE LET e == IF a[2] <= b[2] THEN a[2] ELSE b[2]
       IN F32Of(a[1] * 2^(a[2] - e) + b[1] * 2^(b[2] - e), e)

\* a slip: the operands of a difference exchanged
F32MinusSwapped(a, b) == F32Plus(b, <<-a[1], a[2]>>)

\* a - b in f32
F32Minus(a, b) == F32Plus(a, <<-b[1], b[2]>>)

\* a < b
F32Less(a, b) == F32Minus(a, b)[1] < 0

\* a * b in f32: the significands, made 24 bits long, are multiplied in
\* halves of 12 bits; the product is H * 2^24 + L
F32Times(a, b) ==
  LET p == IF a[1] < 0 THEN -a[1] ELSE a[1]
      q == IF b[1] < 0 THEN -b[1] ELSE b[1]
      neg == (a[1] < 0) # (b[1] < 0)
      sp == 24 - BitLen(p)
      sq == 24 - BitLen(q)
      ah == (p * 2^sp) \div 2^12
      al == (p * 2^sp) % 2^12
      bh == (q * 2^sq) \div 2^12
      bl == (q * 2^sq) % 2^12
      mid == ah * bl + al * bh
      low == al * bl + (mid % 2^12) * 2^12
      H == ah * bh + (mid \div 2^12) + (low \div TwoTo24)
      L == low % TwoTo24
      e == a[2] + b[2] - sp - sq
      m == IF H >= TwoTo23 THEN RoundNearestEven(H, L, TwoTo24, e + 24)
           ELSE RoundNearestEven(2 * H + (L \div TwoTo23), L % TwoTo23, TwoTo23, e + 23)
  IN IF p = 0 \/ q = 0 THEN <<0, 0>>
     ELSE Dyadic(IF neg THEN -m[1] ELSE m[1], m[2])

\* a / b in f32, b # 0: the quotient of the significands is taken bit by bit
\* to 25 bits and rounded with what is left
F32Over(a, b) ==
  LET p == IF a[1] < 0 THEN -a[1] ELSE a[1]
      q == IF b[1] < 0 THEN -b[1] ELSE b[1]
      neg == (a[1] < 0) # (b[1] < 0)
      RECURSIVE Long(_, _, _)
      Long(quo, rem, k) ==
        IF quo >= TwoTo24
        THEN RoundNearestEven(quo \div 2, (quo % 2) * q + rem, 2 * q, a[2] - b[2] - k + 1)
        ELSE IF 2 * rem >= q THEN Long(2 * quo + 1, 2 * rem - q, k + 1)
             ELSE Long(2 * quo, 2 * rem, k + 1)
  IN IF p = 0 THEN <<0, 0>>
     ELSE IF p % q = 0 THEN Dyadic(IF neg THEN -(p \div q) ELSE p \div q, a[2] - b[2])
     ELSE LET m == Long(p \div q, p % q, 0)
          IN Dyadic(IF neg THEN -m[1] ELSE m[1], m[2])

\* a % 2.0 for a >= 0: the remainder of f32 is exact
F32Rem2(a) ==
  IF a[2] >= 1 THEN <<0, 0>>
  ELSE IF a[2] < -24 THEN a
  ELSE Dyadic(a[1] % 2^(1 - a[2]), a[2])

\* the literal k, a small integer
F32Lit(k) == Dyadic(k, 0)

\* linear_to_hsv([r, g, b]) for r, g, b in 0.0..=1.0; the branch of
\* unreachable_unchecked is undefined behaviour and h is then whatever junk is
linear_to_hsv(rgb, junk) ==
  LET r == rgb[1]
      g == rgb[2]
      b == rgb[3]
      max(x, y) == IF F32Less(x, y) THEN y ELSE x
      min(x, y) == IF F32Less(y, x) THEN y ELSE x
      x_max == max(max(r, g), b)
      x_min == min(min(r, g), b)
      c == F32Minus(x_max, x_min)
      v == x_max
      h == IF c = F32Lit(0) THEN F32Lit(0)
           ELSE IF v = r
             THEN F32Times(F32Lit(60), F32Plus(F32Lit(0), F32Over(F32Minus(g, b), c)))
           ELSE IF v = g
             THEN F32Times(F32Lit(60), F32Plus(F32Lit(2), F32Over(F32Minus(b, r), c)))
           ELSE IF v = b
             THEN F32Times(F32Lit(60), F32Plus(F32Lit(4), F32Over(F32Minus(r, g), c)))
           ELSE junk
      s == IF v = F32Lit(0) THEN F32Lit(0) ELSE F32Over(c, v)
  IN <<IF F32Less(h, F32Lit(0)) THEN F32Plus(F32Lit(360), h) ELSE h, s, v>>

\* hsv_to_linear([h, s, v]) for h in 0.0..=360.0 and s, v in 0.0..=1.0;
\* Panic is std::unreachable!()
hsv_to_linear(hsv) ==
  LET s == hsv[2]
      v == hsv[3]
      c == F32Times(s, v)
      h == F32Over(hsv[1], F32Lit(60))
      d == F32Minus(F32Rem2(h), F32Lit(1))
      x == F32Times(c, F32Minus(F32Lit(1), IF d[1] < 0 THEN <<-d[1], d[2]>> ELSE d))
      zero == F32Lit(0)
      within(lo, hi) == F32Less(lo, h) /\ ~F32Less(hi, h)
      rgb == IF c = zero THEN <<zero, zero, zero>>
             ELSE IF ~F32Less(h, zero) /\ ~F32Less(F32Lit(1), h) THEN <<c, x, zero>>
             ELSE IF within(F32Lit(1), F32Lit(2)) THEN <<x, c, zero>>
             ELSE IF within(F32Lit(2), F32Lit(3)) THEN <<zero, c, x>>
             ELSE IF within(F32Lit(3), F32Lit(4)) THEN <<zero, x, c>>
             ELSE IF within(F32Lit(4), F32Lit(5)) THEN <<x, zero, c>>
             ELSE IF within(F32Lit(5), F32Lit(6)) THEN <<c, zero, x>>
             ELSE <<>>
      m == F32Minus(v, c)
  IN IF rgb = <<>> THEN Panic
     ELSE [tag |-> "Ok",
           px |-> <<F32Plus(rgb[1], m), F32Plus(rgb[2], m), F32Plus(rgb[3], m)>>]

-----------------------------------------------------------------------------
(* The state machine *)

\* sizes the iterator and the float routine run on
Dims == (2..MaxRows) \X (2..MaxCols)

\* widths of two and three 16-byte groups
WiderCols == {48, 50}

\* sizes the 8-bit routine runs on: cols >= 32 is its precondition
WideDims == (2..MaxHeight) \X ((32..(32 + MaxExtraCols)) \cup WiderCols)

\* mosaics the 8-bit routine runs on
WideMosaics(r, c) ==
  LET n == r * c IN
  {RampMosaic(n), ShiftMosaic(n), BrightMosaic(n), SeedMosaic(n, 0), StepMosaic(n)}
    \cup {ConstMosaic(n, v) : v \in {0, 17, 128, 255}}

\* Image::default()
EmptyImage == [r |-> <<>>, g |-> <<>>, b |-> <<>>, h |-> 0, w |-> 0]

\* an image of h rows and w columns that holds earlier results
UsedImage(h, w) ==
  LET plane == [k \in 0..(h * w - 1) |-> 170]
  IN [r |-> plane, g |-> plane, b |-> plane, h |-> h, w |-> w]

\* the images a caller may hand over: new, smaller, of the same size, larger
PriorImages(h, w) == {EmptyImage, UsedImage(h - 1, w), UsedImage(h, w), UsedImage(h + 1, w)}

\* the floats a caller's vec may hold: 0.0 or 1.0
VecFills == {<<0, 0>>, <<TwoTo23, -23>>}

IterInit ==
  /\ row_idx = 0
  /\ col_idx = 0
  /\ ret = [tag |-> "new"]
  /\ items = <<>>
  /\ centres = <<>>
  /\ nbrs = <<>>
  /\ reads = <<>>
  /\ nones = 0

\* DebayerRG8::new(data, rows, cols)
InitLazy ==
  /\ \E d \in Dims :
       /\ rows = d[1]
       /\ cols = d[2]
       /\ data \in Mosaics(d[1], d[2])
  /\ vec = <<>>
  /\ img = EmptyImage
  /\ build = "release"

\* a caller about to call demosaic_rg8 with a vec of 3 * rows * cols floats
InitF32 ==
  /\ \E d \in (2..(MaxRows + 2)) \X (2..(MaxCols + 2)) :
       /\ rows = d[1]
       /\ cols = d[2]
       /\ data \in {RampMosaic(d[1] * d[2]), BrightMosaic(d[1] * d[2]),
                    SeedMosaic(d[1] * d[2], 1), ConstMosaic(d[1] * d[2], 17)}
       /\ \E fill \in VecFills : vec = [k \in 0..(3 * d[1] * d[2] - 1) |-> fill]
  /\ img = EmptyImage
  /\ build = "release"

\* a caller about to call demosaic_rg8_x86
InitU8 ==
  /\ \E d \in WideDims :
       /\ rows = d[1]
       /\ cols = d[2]
       /\ data \in WideMosaics(d[1], d[2])
       /\ img \in PriorImages(d[1], d[2])
  /\ vec = <<>>
  /\ build \in {"debug", "release"}

\* no eager call has been made
EagerInit ==
  /\ status = "ready"
  /\ trace = <<>>

\* no PNG reader is at hand
NoReader == [info |-> "none"]

\* no reader has been called
NoResult == [tag |-> "none"]

\* no value is being converted
NoConv == [pc |-> "none"]

\* a program that reads no PNG ...
PngIdle ==
  /\ reader = NoReader
  /\ result = NoResult
  /\ writer = [pc |-> "none"]

\* ... and converts no colour
ConvIdle == conv = NoConv

\* a program that demosaics nothing
MosaicIdle ==
  /\ rows = 2
  /\ cols = 2
  /\ data = ConstMosaic(4, 0)
  /\ vec = <<>>
  /\ img = EmptyImage
  /\ build = "release"

\* a caller about to read a PNG
InitReader ==
  /\ reader \in Readers
  /\ result = NoResult
  /\ writer = [pc |-> "none"]

\* read_rgba8(reader)
Call_read_rgba8 ==
  /\ result = NoResult
  /\ \E res \in {read_rgba8(reader)} : result' = res @@ [fn |-> "read_rgba8"]
  /\ UNCHANGED <<rows, cols, data, row_idx, col_idx, ret, items, centres, nbrs, reads,
                 nones, vec, img, build, status, trace, writer, reader, conv>>

\* read_rgb8(reader)
Call_read_rgb8 ==
  /\ result = NoResult
  /\ \E res \in {read_rgb8(reader)} : result' = res @@ [fn |-> "read_rgb8"]
  /\ UNCHANGED <<rows, cols, data, row_idx, col_idx, ret, items, centres, nbrs, reads,
                 nones, vec, img, build, status, trace, writer, reader, conv>>

\* read_gray8(reader)
Call_read_gray8 ==
  /\ result = NoResult
  /\ \E res \in {read_gray8(reader)} : result' = res @@ [fn |-> "read_gray8"]
  /\ UNCHANGED <<rows, cols, data, row_idx, col_idx, ret, items, centres, nbrs, reads,
                 nones, vec, img, build, status, trace, writer, reader, conv>>

\* DebayerRG8::next
Next_lazy ==
  /\ ret.tag # "panic"
  /\ nones < MaxNone
  /\ \E junk \in JunkBytes :
     LET res == IterNext([row_idx |-> row_idx, col_idx |-> col_idx,
                          rows |-> rows, cols |-> cols, data |-> data], junk)
     IN /\ row_idx' = res.it.row_idx
        /\ col_idx' = res.it.col_idx
        /\ ret' = res.ret
        /\ nbrs' = res.nbrs
        /\ reads' = res.reads
        /\ items' = IF res.ret.tag = "Some" THEN Append(items, res.ret.px) ELSE items
        /\ centres' = IF res.ret.tag = "Some" THEN Append(centres, res.centre) ELSE centres
        /\ nones' = IF res.ret.tag = "None" THEN nones + 1 ELSE nones
  /\ UNCHANGED <<rows, cols, data, vec, img, build, status, trace, writer, reader, result, conv>>

\* demosaic_rg8(data, cols, rows, vec)
Call_demosaic_rg8 ==
  /\ status = "ready"
  /\ \E junk \in JunkBytes : vec' = demosaic_rg8(data, cols, rows, vec, junk)
  /\ status' = "returned"
  /\ UNCHANGED <<rows, cols, data, row_idx, col_idx, ret, items, centres,
                 nbrs, reads, nones, img, build, trace, writer, reader, result, conv>>

\* demosaic_rg8_x86(data, cols, rows, img)
Call_demosaic_rg8_x86 ==
  /\ status = "ready"
  /\ \E junk \in JunkBytes :
     \E r \in {debayer_red_channel(data, rows, cols, Resize(img.r, cols * rows), junk, build)} :
     \E g \in {IF r.halt THEN Unwound(Resize(img.g, cols * rows))
               ELSE debayer_green_channel(data, rows, cols, Resize(img.g, cols * rows), junk, build)} :
     \E b \in {IF g.halt THEN Unwound(Resize(img.b, cols * rows))
               ELSE debayer_blue_channel(data, rows, cols, Resize(img.b, cols * rows), junk, build)} :
       /\ img' = [img EXCEPT !.r = r.o, !.g = g.o, !.b = b.o]
       /\ trace' = [wr |-> [r |-> r.wr, g |-> g.wr, b |-> b.wr],
                    oob |-> [r |-> r.oob, g |-> g.oob, b |-> b.oob]]
       /\ status' = IF b.halt THEN "panicked" ELSE "returned"
  /\ UNCHANGED <<rows, cols, data, row_idx, col_idx, ret, items, centres,
                 nbrs, reads, nones, vec, build, writer, reader, result, conv>>

\* The entry points are independent programs: one specification each.

\* a caller that iterates a DebayerRG8
Init == InitLazy /\ IterInit /\ EagerInit /\ PngIdle /\ ConvIdle
Next == Next_lazy
Spec == Init /\ [][Next]_vars

\* a caller of demosaic_rg8
InitFloat == InitF32 /\ IterInit /\ EagerInit /\ PngIdle /\ ConvIdle
NextFloat == Call_demosaic_rg8
SpecF32 == InitFloat /\ [][NextFloat]_vars

\* a caller of demosaic_rg8_x86
InitBytes == InitU8 /\ IterInit /\ EagerInit /\ PngIdle /\ ConvIdle
NextBytes == Call_demosaic_rg8_x86
SpecU8 == InitBytes /\ [][NextBytes]_vars

\* a caller about to convert an 8-bit sRGB value
InitConv == conv \in [pc : {"start"}, x : 0..255]

\* srgb_to_linear(x)
Call_srgb_to_linear ==
  /\ conv.pc = "start"
  /\ \E u \in srgb_to_linear(conv.x) : conv' = [pc |-> "linear", x |-> conv.x, u |-> u]
  /\ UNCHANGED <<rows, cols, data, row_idx, col_idx, ret, items, centres, nbrs, reads,
                 nones, vec, img, build, status, trace, writer, reader, result>>

\* linear_to_srgb of the value srgb_to_linear returned
Call_linear_to_srgb ==
  /\ conv.pc = "linear"
  /\ \E y \in linear_to_srgb(conv.u) : conv' = [conv EXCEPT !.pc = "done"] @@ [y |-> y]
  /\ UNCHANGED <<rows, cols, data, row_idx, col_idx, ret, items, centres, nbrs, reads,
                 nones, vec, img, build, status, trace, writer, reader, result>>

\* the colours handed to linear_to_hsv: the grays of all 256 normalised
\* samples, and the colours with components 0, 1/4, 1/2 and 1
HsvInputs ==
  {<<Dyadic(F32Norm(x)[1], F32Norm(x)[2]), Dyadic(F32Norm(x)[1], F32Norm(x)[2]),
     Dyadic(F32Norm(x)[1], F32Norm(x)[2])>> : x \in 0..255}
    \cup {<<Dyadic(p[1], -2), Dyadic(p[2], -2), Dyadic(p[3], -2)>>
           : p \in {0, 1, 2, 4} \X {0, 1, 2, 4} \X {0, 1, 2, 4}}

\* linear_to_hsv(rgb)
Call_linear_to_hsv ==
  /\ conv.pc = "rgb"
  /\ \E junk \in {F32Lit(0), F32Lit(360)} :
     \E hsv \in {linear_to_hsv(conv.rgb, junk)} :
       conv' = [pc |-> "hsv", rgb |-> conv.rgb, hsv |-> hsv]
  /\ UNCHANGED <<rows, cols, data, row_idx, col_idx, ret, items, centres, nbrs, reads,
                 nones, vec, img, build, status, trace, writer, reader, result>>

\* hsv_to_linear of the triple linear_to_hsv returned
Call_hsv_to_linear ==
  /\ conv.pc = "hsv"
  /\ \E back \in {hsv_to_linear(conv.hsv)} :
       conv' = [pc |-> "back", rgb |-> conv.rgb, hsv |-> conv.hsv, back |-> back]
  /\ UNCHANGED <<rows, cols, data, row_idx, col_idx, ret, items, centres, nbrs, reads,
                 nones, vec, img, build, status, trace, writer, reader, result>>

\* a caller of one of the PNG readers
InitPng == InitReader /\ ConvIdle /\ MosaicIdle /\ IterInit /\ EagerInit
NextPng == Call_read_rgba8 \/ Call_read_rgb8 \/ Call_read_gray8
SpecPng == InitPng /\ [][NextPng]_vars

\* a caller that converts an sRGB value to linear and back
InitSrgb == InitConv /\ PngIdle /\ MosaicIdle /\ IterInit /\ EagerInit
NextSrgb == Call_srgb_to_linear \/ Call_linear_to_srgb
SpecSrgb == InitSrgb /\ [][NextSrgb]_vars

\* a caller that converts a linear colour to HSV and back
InitHsv ==
  /\ conv \in [pc : {"rgb"}, rgb : HsvInputs]
  /\ PngIdle /\ MosaicIdle /\ IterInit /\ EagerInit
NextHsv == Call_linear_to_hsv \/ Call_hsv_to_linear
SpecHsv == InitHsv /\ [][NextHsv]_vars

\* the body the four writers share: write_header()?, the buffer, and
\* Ok(png_writer.write_image_data(&buf)?).  Item k of img holds the bytes
\* PngByte(num_channels * k + c); the encoder is the png crate's.
WriteCall(fn, color_type, num_channels) ==
  /\ writer.pc = "call"
  /\ \E pixels \in {[k \in 1..writer.len |->
                    [c \in 1..num_channels |-> PngByte(num_channels * (k - 1) + c - 1)]]} :
     \E buf \in {WriteBuf(pixels, num_channels, writer.width, writer.height)} :
       writer' = [pc |-> "done", fn |-> fn, img |-> pixels,
                  width |-> writer.width, height |-> writer.height,
                  header |-> writer.header, encode |-> writer.encode,
                  color |-> IF writer.header = "ok" THEN color_type ELSE "none",
                  depth |-> IF writer.header = "ok" THEN "Eight" ELSE "none",
                  handed |-> IF writer.header = "ok" THEN <<buf>> ELSE <<>>,
                  ret |-> IF writer.header = "ok" /\ writer.encode = "ok"
                          THEN "Ok" ELSE "Err"]
  /\ UNCHANGED <<rows, cols, data, row_idx, col_idx, ret, items, centres, nbrs, reads,
                 nones, vec, img, build, status, trace, reader, result, conv>>

\* write_gray8(writer, img, width, height)
Call_write_gray8 == WriteCall("write_gray8", "Grayscale", 1)

\* write_grayalpha8(writer, img, width, height)
Call_write_grayalpha8 == WriteCall("write_grayalpha8", "GrayscaleAlpha", 2)

\* write_rgb8(writer, img, width, height)
Call_write_rgb8 == WriteCall("write_rgb8", "RGB", 3)

\* write_rgba8(writer, img, width, height)
Call_write_rgba8 == WriteCall("write_rgba8", "RGBA", 4)

\* a caller about to write an image
InitWrite ==
  /\ writer \in Writers
  /\ reader = NoReader
  /\ result = NoResult
  /\ ConvIdle /\ MosaicIdle /\ IterInit /\ EagerInit
NextWrite ==
  Call_write_gray8 \/ Call_write_grayalpha8 \/ Call_write_rgb8 \/ Call_write_rgba8
SpecWrite == InitWrite /\ [][NextWrite]_vars

-----------------------------------------------------------------------------
(* The interpolation rule of the specification, in exact arithmetic *)

\* the mirrored previous and next index of i on an axis of size n
MirrorPrev(i, n) == IF i = 0 THEN 1 ELSE IF i = n - 1 THEN n - 2 ELSE i - 1
MirrorNext(i, n) == IF i = 0 THEN 1 ELSE IF i = n - 1 THEN n - 2 ELSE i + 1

\* 1020 times the exact (R, G, B) of the rule at (r, c) of the mosaic s
RuleTimes1020(s, r, c, nrows, ncols) ==
  LET at(y, x) == s[y * ncols + x]
      pr == MirrorPrev(r, nrows)
      nr == MirrorNext(r, nrows)
      pc == MirrorPrev(c, ncols)
      nc == MirrorNext(c, ncols)
      own   == 4 * at(r, c)
      orth  == at(r, pc) + at(pr, c) + at(r, nc) + at(nr, c)
      diag  == at(pr, pc) + at(pr, nc) + at(nr, pc) + at(nr, nc)
      horiz == 2 * (at(r, pc) + at(r, nc))
      vert  == 2 * (at(pr, c) + at(nr, c))
  IN CASE r % 2 = 0 /\ c % 2 = 0 -> <<own, orth, diag>>
       [] r % 2 = 0 /\ c % 2 = 1 -> <<horiz, own, vert>>
       [] r % 2 = 1 /\ c % 2 = 0 -> <<vert, own, horiz>>
       [] r % 2 = 1 /\ c % 2 = 1 -> <<diag, orth, own>>

\* which component of the pixel at (r, c) is the mosaic's own sample
NativeChannel(r, c) == IF r % 2 = 0 /\ c % 2 = 0 THEN 1 ELSE IF r % 2 = 1 /\ c % 2 = 1 THEN 3 ELSE 2

RECURSIVE LongDiv(_, _, _, _)
\* num / den by long division, to 24 significant bits, truncated
LongDiv(q, rem, den, n) ==
  IF q >= TwoTo23 THEN <<q, -n>>
  ELSE IF 2 * rem >= den THEN LongDiv(2 * q + 1, 2 * rem - den, den, n + 1)
  ELSE LongDiv(2 * q, 2 * rem, den, n + 1)

\* the f32 just below or at num / den, for 0 <= num <= den
TruncF32(num, den) == IF num = 0 THEN <<0, 0>> ELSE LongDiv(num \div den, num % den, den, 0)

Abs(x) == IF x < 0 THEN -x ELSE x

\* the distance of two f32 in units of the last place of the smaller
UlpDist(x, y) ==
  IF x[1] = 0 \/ y[1] = 0 THEN (IF x = y THEN 0 ELSE 1000)
  ELSE IF x[2] = y[2] THEN Abs(x[1] - y[1])
  ELSE IF x[2] = y[2] + 1 THEN Abs(2 * x[1] - y[1])
  ELSE IF y[2] = x[2] + 1 THEN Abs(2 * y[1] - x[1])
  ELSE 1000

\* the f32 x is num / den up to the rounding of at most four float operations
IsRational(x, num, den) == UlpDist(x, TruncF32(num, den)) <= 4

-----------------------------------------------------------------------------
(* Claims *)

\* C1: a fresh DebayerRG8 over rows, cols >= 2 returns Some from next() exactly
\* rows*cols times and then None: each call returns None exactly when rows*cols
\* items were returned before it, and otherwise Some
C1_ExactlyRowsTimesCols ==
  [][/\ ret'.tag \in {"Some", "None"}
     /\ (ret'.tag = "None") <=> (Len(items) = rows * cols)
     /\ Len(items') <= rows * cols]_vars

C1_Witness == ret.tag = "None" /\ Len(items) = rows * cols /\ rows = 3 /\ cols = 5

\* C2: the k-th item of next() (k from 0) is the pixel computed for the centre
\* (k div cols, k mod cols): its write_idx is k and its native component is the
\* normalised sample at that position
C2_RowMajorOrder ==
  \A k \in 0..(Len(items) - 1) :
    /\ centres[k + 1] = (k \div cols) * cols + (k % cols)
    /\ items[k + 1][NativeChannel(k \div cols, k % cols)]
         = F32Norm(data[(k \div cols) * cols + (k % cols)])

C2_Witness == Len(items) = rows * cols /\ rows = 4 /\ cols = 3 /\ data = RampMosaic(12)

\* C3: the cursor only advances: a call that returns Some strictly increases
\* row_idx*cols + col_idx, and once None was returned every later call returns
\* None and leaves the cursor where it is
C3_CursorOnlyAdvances ==
  [][/\ (ret'.tag = "Some") => (row_idx' * cols + col_idx' > row_idx * cols + col_idx)
     /\ (ret.tag = "None") =>
          (ret'.tag = "None" /\ row_idx' = row_idx /\ col_idx' = col_idx /\ items' = items)]_vars

C3_Witness == nones = 2 /\ ret.tag = "None" /\ row_idx = rows /\ col_idx = cols

\* C4: every index next() passes to get lies in [0, rows*cols)
C4_ReadsInBounds ==
  \A i \in 1..Len(reads) : 0 <= reads[i] /\ reads[i] < rows * cols

\* a call at the bottom right corner of a mosaic of odd size has made its 9 reads
C4_Witness ==
  /\ Len(reads) = 9
  /\ Len(items) = rows * cols
  /\ rows * cols - 1 \in {reads[i] : i \in 1..Len(reads)}

\* C5: next() resolves the neighbours of centre index i on an axis of size n as
\* (1, 1) when i = 0, (n-2, n-2) when i = n-1 and (i-1, i+1) otherwise, on the
\* row axis and on the column axis independently
C5_MirroredNeighbours ==
  [][(ret'.tag = "Some") =>
       /\ nbrs'[1] = <<MirrorPrev(row_idx, rows), row_idx, MirrorNext(row_idx, rows)>>
       /\ nbrs'[2] = <<MirrorPrev(col_idx, cols), col_idx, MirrorNext(col_idx, cols)>>]_vars

\* the call at the last row, first column of a mosaic of more than two rows
C5_Witness ==
  /\ ret.tag = "Some"
  /\ rows > 2
  /\ nbrs = <<(<<rows - 2, rows - 1, rows - 2>>), (<<1, 0, 1>>)>>

\* C6: the triple yielded at (row, col) follows the four parity cases with
\* mirrored neighbours, every value divided by 255: each component is the rule's
\* exact value up to float rounding, and the native component is the sample
C6_ParityRule ==
  [][(ret'.tag = "Some") =>
       LET want == RuleTimes1020(data, row_idx, col_idx, rows, cols) IN
       /\ \A ch \in 1..3 : IsRational(ret'.px[ch], want[ch], 1020)
       /\ ret'.px[NativeChannel(row_idx, col_idx)] = F32Norm(data[row_idx * cols + col_idx])]_vars

\* all four parity cases, border and interior, have been yielded for a scrambled mosaic
C6_Witness ==
  /\ Len(items) = rows * cols
  /\ rows = 5 /\ cols = 6
  /\ data = SeedMosaic(30, 1)

\* C7: a 2x2 mosaic [r, g1, g2, b] yields four pixels with R = r/255 and
\* B = b/255 throughout and G = (g1+g2)/2/255, g1/255, g2/255, (g1+g2)/2/255;
\* for [1, 2, 3, 4] the values are the literals of the test debayer_rg
C7_TwoByTwo ==
  (rows = 2 /\ cols = 2 /\ Len(items) = 4) =>
    /\ \A k \in 1..4 : items[k][1] = F32Norm(data[0]) /\ items[k][3] = F32Norm(data[3])
    /\ items[2][2] = F32Norm(data[1])
    /\ items[3][2] = F32Norm(data[2])
    /\ IsRational(items[1][2], data[1] + data[2], 510)
    /\ IsRational(items[4][2], data[1] + data[2], 510)
    /\ (data = RampMosaic(4)) =>
         /\ \A k \in 1..4 : items[k][1] = <<8421505, -31>> /\ items[k][3] = <<8421505, -29>>
         /\ <<items[1][2], items[2][2], items[3][2], items[4][2]>>
              = <<(<<10526882, -30>>), (<<8421505, -30>>), (<<12632258, -30>>), (<<10526882, -30>>)>>

C7_Witness == rows = 2 /\ cols = 2 /\ Len(items) = 4 /\ data = RampMosaic(4)

\* C8: when the mosaic is filled with one value v, every component of every
\* pixel yielded is exactly the normalised v
C8_UniformLazy ==
  (\A i \in DOMAIN data : data[i] = data[0]) =>
    \A k \in 1..Len(items) : \A ch \in 1..3 : items[k][ch] = F32Norm(data[0])

C8_Witness ==
  /\ data = ConstMosaic(rows * cols, 255)
  /\ rows = 5 /\ cols = 4
  /\ Len(items) = rows * cols

\* C9: after demosaic_rg8_x86 runs on a mosaic of width >= 32 and height >= 2
\* filled with one value v, every sample at every index 0..width*height-1 of
\* the r, g and b planes is v
C9_UniformX86 ==
  (status = "returned" /\ \A i \in DOMAIN data : data[i] = data[0]) =>
    \A i \in 0..(rows * cols - 1) :
      /\ img.r[i] = data[0]
      /\ img.g[i] = data[0]
      /\ img.b[i] = data[0]

\* C10: demosaic_rg8 leaves in vec, for every coordinate (row, col) of the
\* image, border rows and columns included, the (R, G, B) that DebayerRG8
\* yields for that coordinate when iterated to completion
C10_EagerEqualsLazy ==
  (status = "returned") =>
    LET lazy == Collect(NewIter(data, rows, cols), <<>>, 0) IN
    \A k \in 0..(rows * cols - 1) : \A ch \in 1..3 :
      vec[3 * k + ch - 1] = lazy[k + 1][ch]

-----------------------------------------------------------------------------
(* Claims about demosaic_rg8_x86 *)

\* 255 * x < c and 255 * x > c for an f32 x in [0, 1] and an integer c, decided
\* exactly on the significand split in two halves of 12 bits
Times255Less(x, c) ==
  IF c <= 0 THEN FALSE
  ELSE IF x[1] = 0 THEN TRUE
  ELSE 255 * (x[1] \div 4096) + ((255 * (x[1] % 4096)) \div 4096) < c * 2^((-x[2]) - 12)

Times255More(x, c) ==
  IF c < 0 THEN TRUE
  ELSE IF x[1] = 0 THEN FALSE
  ELSE LET hi == 255 * (x[1] \div 4096) + ((255 * (x[1] % 4096)) \div 4096)
           lo == (255 * (x[1] % 4096)) % 4096
           rhs == c * 2^((-x[2]) - 12)
       IN hi > rhs \/ (hi = rhs /\ lo > 0)

\* the byte b differs by less than 1 from 255 times the f32 x
Quantizes(b, x) == Times255More(x, b - 1) /\ Times255Less(x, b + 1)

\* the sum of the four orthogonal neighbours of (r, c), with mirrored borders
OrthogonalSum(s, r, c, nrows, ncols) ==
  s[r * ncols + MirrorPrev(c, ncols)] + s[r * ncols + MirrorNext(c, ncols)]
    + s[MirrorPrev(r, nrows) * ncols + c] + s[MirrorNext(r, nrows) * ncols + c]

\* C11: every sample demosaic_rg8_x86 leaves at (row, col) of the r, g and b
\* planes differs by less than 1 from 255 times the matching component of the
\* pixel DebayerRG8 yields for (row, col)
C11_AgreesWithLazy ==
  (status = "returned") =>
    LET lazy == Collect(NewIter(data, rows, cols), <<>>, 0) IN
    \A k \in 0..(rows * cols - 1) :
      /\ Quantizes(img.r[k], lazy[k + 1][1])
      /\ Quantizes(img.g[k], lazy[k + 1][2])
      /\ Quantizes(img.b[k], lazy[k + 1][3])

\* C12: after demosaic_rg8_x86 returns, each of img.r, img.g and img.b has
\* length exactly width*height, whatever length the plane had before the call
C12_PlaneLengths ==
  (status = "returned") =>
    /\ DOMAIN img.r = 0..(rows * cols - 1)
    /\ DOMAIN img.g = 0..(rows * cols - 1)
    /\ DOMAIN img.b = 0..(rows * cols - 1)

\* the call has returned on an image that came with one row more than height
\* (width and height of the image are left as they were)
C12_Witness ==
  /\ status = "returned"
  /\ img.h = rows + 1
  /\ img.w = cols
  /\ rows = 3

\* C13: demosaic_rg8_x86 fills the planes completely: every index in
\* 0..width*height-1 of each of the r, g and b planes is written at least once
\* during the call, the last columns of each row and the last row included
C13_PlanesFilled ==
  (status = "returned") =>
    /\ trace.wr.r = 0..(rows * cols - 1)
    /\ trace.wr.g = 0..(rows * cols - 1)
    /\ trace.wr.b = 0..(rows * cols - 1)

\* C14: the planes after demosaic_rg8_x86 depend only on (data, width, height):
\* whatever lengths and contents the planes of img had before, they end as the
\* planes of a call that was handed a new image
C14_PriorContentsDiscarded ==
  (status = "returned") =>
    \E junk \in JunkBytes :
      /\ img.r = debayer_red_channel(data, rows, cols, Resize(<<>>, cols * rows), junk, build).o
      /\ img.g = debayer_green_channel(data, rows, cols, Resize(<<>>, cols * rows), junk, build).o
      /\ img.b = debayer_blue_channel(data, rows, cols, Resize(<<>>, cols * rows), junk, build).o

\* C15: every two-sample average inside demosaic_rg8_x86 is floor((a+b)/2), in
\* the vectorized columns as in the scalar-tail columns: the red between two
\* red samples of an even row, the blue between two blue samples of an odd
\* row, and the red of an odd row between the reds above and below
C15_AveragesTruncate ==
  (status = "returned") =>
    \A i \in 0..(rows - 1) : \A c \in 0..(cols - 2) :
      LET k == i * cols + c IN
      /\ (i % 2 = 0 /\ c % 2 = 1 /\ k \in trace.wr.r) =>
           img.r[k] = (data[k - 1] + data[k + 1]) \div 2
      /\ (i % 2 = 1 /\ c % 2 = 0 /\ k \in trace.wr.b) =>
           img.b[k] = (data[i * cols + MirrorPrev(c, cols)] + data[k + 1]) \div 2
      /\ (i % 2 = 1 /\ i + 1 < rows /\ k \in trace.wr.r) =>
           img.r[k] = (img.r[k - cols] + img.r[k + cols]) \div 2

\* C16: with height >= 2, width >= 32 and data.len() >= width*height, every
\* read of the mosaic and every read or write of a plane made by
\* demosaic_rg8_x86 and its channel routines is at an index in
\* [0, width*height), for odd as for even heights and widths
C16_AccessesInBounds ==
  (status # "ready") =>
    /\ trace.oob.r = {}
    /\ trace.oob.g = {}
    /\ trace.oob.b = {}

\* C17: for even rows, debayer_green_channel writes the mosaic sample at every
\* green-native position (row + col odd) and, at every red- or blue-native
\* position, a value between the floor and the ceiling of the exact mean of
\* the four orthogonal neighbours with mirrored borders
C17_GreenChannel ==
  (status = "returned" /\ rows % 2 = 0) =>
    \A i \in 0..(rows - 1) : \A c \in 0..(cols - 1) :
      LET k == i * cols + c
          sum == OrthogonalSum(data, i, c, rows, cols)
      IN IF (i + c) % 2 = 1
           THEN img.g[k] = data[k]
           ELSE 4 * img.g[k] >= sum - 3 /\ 4 * img.g[k] <= sum + 3


-----------------------------------------------------------------------------
(* Claims about png.rs *)

\* the colour types each reader is said to accept
Accepted(fn) ==
  CASE fn = "read_rgba8" -> {"RGBA"}
    [] fn = "read_rgb8" -> {"RGB", "RGBA"}
    [] fn = "read_gray8" -> {"Grayscale", "GrayscaleAlpha"}

\* sample c of pixel k of the image, pixels counted row by row
PixelSample(rd, k, c) ==
  DecodedRow(rd, k \div rd.width)[(k % rd.width) * Samples(rd.color_type) + c + 1]

\* C18: each reader returns a value and never aborts: Err(Decoding) when
\* read_info fails; otherwise Err(InvalidColorType) when the colour type is not
\* an accepted one, whatever the bit depth; otherwise Err(InvalidBitDepth) when
\* the depth is not 8; otherwise Err(Decoding) when any call of next_row
\* fails; and an Err carries no image.
C18_ErrorValues ==
  result.tag # "none" =>
    /\ result.tag \in {"Ok", "Err"}
    /\ result.tag = "Err" => DOMAIN result = {"tag", "err", "fn"}
    /\ result.tag = "Ok" => "image" \in DOMAIN result
    /\ reader.info = "err" => result.tag = "Err" /\ result.err = "Decoding"
    /\ reader.info = "ok" =>
         IF reader.color_type \notin Accepted(result.fn)
         THEN result.tag = "Err" /\ result.err = "InvalidColorType"
         ELSE IF reader.bit_depth # "Eight"
         THEN result.tag = "Err" /\ result.err = "InvalidBitDepth"
         ELSE IF reader.fail_row # -1
         THEN result.tag = "Err" /\ result.err = "Decoding"
         ELSE result.tag = "Ok"

\* a reader met a colour type it does not accept at a depth other than 8
C18_Witness ==
  /\ result.tag = "Err"
  /\ result.err = "InvalidColorType"
  /\ reader.bit_depth = "Sixteen"
  /\ result.fn = "read_gray8"

\* C19: read_gray8 on an 8-bit Grayscale or GrayscaleAlpha image and read_rgb8
\* on an 8-bit RGB or RGBA image that decodes without failure return an image
\* whose planes have width*height elements; element k of a plane is that
\* plane's sample of pixel k, and the alpha sample is stored nowhere.
C19_AlphaDropped ==
  (/\ result.tag # "none"
   /\ result.fn \in {"read_gray8", "read_rgb8"}
   /\ reader.info = "ok"
   /\ reader.color_type \in Accepted(result.fn)
   /\ reader.bit_depth = "Eight"
   /\ reader.fail_row = -1) =>
    /\ result.tag = "Ok"
    /\ LET size == reader.width * reader.height
           image == result.image
       IN IF result.fn = "read_gray8"
          THEN /\ DOMAIN image = {"v", "h", "w"}
               /\ DOMAIN image.v = 0..(size - 1)
               /\ \A k \in 0..(size - 1) : image.v[k] = PixelSample(reader, k, 0)
          ELSE /\ DOMAIN image = {"r", "g", "b", "h", "w"}
               /\ DOMAIN image.r = 0..(size - 1)
               /\ DOMAIN image.g = 0..(size - 1)
               /\ DOMAIN image.b = 0..(size - 1)
               /\ \A k \in 0..(size - 1) :
                    /\ image.r[k] = PixelSample(reader, k, 0)
                    /\ image.g[k] = PixelSample(reader, k, 1)
                    /\ image.b[k] = PixelSample(reader, k, 2)

\* read_rgb8 returned the image of an RGBA file of several rows and columns
C19_Witness ==
  /\ result.tag = "Ok"
  /\ result.fn = "read_rgb8"
  /\ reader.color_type = "RGBA"
  /\ reader.width = MaxPngWidth
  /\ reader.height >= 2


-----------------------------------------------------------------------------
(* Claims about convert.rs *)

\* C20: for every 8-bit x, linear_to_srgb(srgb_to_linear(x)) is x.
C20_RoundTrip == conv.pc = "done" => conv.y = conv.x

\* a value of the power branch has made the round trip
C20_Witness == conv.pc = "done" /\ conv.x = 200 /\ conv.u.lo > FxBinary(31308, 10^7, 28)


\* C21: linear_to_hsv takes every gray (x, x, x) to exactly (0, 0, x), and
\* hsv_to_linear takes that triple back to exactly (x, x, x).
C21_GrayHsv ==
  (conv.pc \in {"hsv", "back"} /\ conv.rgb[1] = conv.rgb[2] /\ conv.rgb[2] = conv.rgb[3]) =>
    /\ conv.hsv = <<F32Lit(0), F32Lit(0), conv.rgb[1]>>
    /\ conv.pc = "back" => conv.back = [tag |-> "Ok", px |-> conv.rgb]

\* a gray that is neither black nor white, 100/255, has made the round trip
C21_Witness ==
  /\ conv.pc = "back"
  /\ conv.rgb = <<Dyadic(F32Norm(100)[1], F32Norm(100)[2]), Dyadic(F32Norm(100)[1], F32Norm(100)[2]),
                  Dyadic(F32Norm(100)[1], F32Norm(100)[2])>>


-----------------------------------------------------------------------------
(* Further claims about demosaic_rg8_x86 *)

\* C22: after demosaic_rg8_x86 returns, every native sample is passed through
\* unchanged: r equals the mosaic at every (even row, even col), column
\* cols - 2 included, g at every position with row + col odd, and b at every
\* (odd row, odd col).
C22_NativePassThrough ==
  (status = "returned") =>
    \A row \in 0..(rows - 1) : \A col \in 0..(cols - 1) :
      LET k == row * cols + col IN
      /\ (row % 2 = 0 /\ col % 2 = 0) => img.r[k] = data[k]
      /\ ((row + col) % 2 = 1) => img.g[k] = data[k]
      /\ (row % 2 = 1 /\ col % 2 = 1) => img.b[k] = data[k]


\* the first column the scalar loops of the red and green routines handle:
\* the 16-byte loops run while j + 32 <= cols
ScalarFrom(ncols) == 16 * ((ncols - 16) \div 16)

\* C23: the scalar tail loops never overflow: the call does not panic, and
\* a stored average is the floor of the true mean, floor((a + b) / 2) for the
\* red pairs and floor((a + b + c + d) / 4) for the green sums, also when the
\* sum exceeds 255.
C23_ScalarTailsExact ==
  /\ status # "panicked"
  /\ (status = "returned") =>
       \A i \in 0..(rows - 2) : \A j \in ScalarFrom(cols)..(cols - 1) :
         LET k == i * cols + j IN
         /\ (i % 2 = 0 /\ j % 2 = 1 /\ j + 1 < cols /\ k \in trace.wr.r) =>
              img.r[k] = (data[k - 1] + data[k + 1]) \div 2
         /\ (i % 2 = 0 /\ j % 2 = 0 /\ j + 1 < cols) =>
              img.g[k] = (data[k + 1] + data[k - 1] + data[k + cols]
                            + (IF i > 0 THEN data[k - cols] ELSE data[k + cols])) \div 4


\* C24: after demosaic_rg8_x86 returns, the blue value at column 0 of every
\* odd row r is the average of the mirrored pair of row r, which is the sample
\* at (r, 1); no sample of another row enters it.
C24_BlueFirstColumn ==
  (status = "returned") =>
    \A r \in 0..(rows - 1) : (r % 2 = 1) => img.b[r * cols] = data[r * cols + 1]

\* C25: after demosaic_rg8_x86 returns, the blue value at every even row i with
\* i + 1 < rows and every column j, the columns of the scalar tail included, is
\* the average (rounded either way) of the blue values of rows i - 1 and i + 1
\* at column j, with row 1 on both sides when i = 0.
C25_BlueVerticalAverage ==
  (status = "returned") =>
    \A i \in 0..(rows - 2) : \A j \in 0..(cols - 1) :
      (i % 2 = 0) =>
        LET up == IF i = 0 THEN 1 ELSE i - 1
            s  == img.b[up * cols + j] + img.b[(i + 1) * cols + j]
        IN img.b[i * cols + j] \in {s \div 2, (s + 1) \div 2}

\* C26: after demosaic_rg8_x86(data, width, height, img) returns, the image
\* reports the dimensions of the call, img.width() = width and img.height() =
\* height, and each plane holds img.width() * img.height() samples, whatever
\* dimensions img had before.
C26_DimensionsSet ==
  (status = "returned") =>
    /\ img.w = cols
    /\ img.h = rows
    /\ \A plane \in {img.r, img.g, img.b} : DOMAIN plane = 0..(img.w * img.h - 1)

-----------------------------------------------------------------------------
(* A further claim about demosaic_rg8 *)

\* C27: on a mosaic with an even number of rows, rows >= 4 and cols >= 4, a
\* call of demosaic_rg8 changes vec at the interior coordinates only,
\* 2 <= row < rows - 2 and 2 <= col < cols - 2: there the three floats at
\* 3 * (row * cols + col) + 0, 1, 2 become the (R, G, B) that DebayerRG8 yields
\* for (row, col), and every other element of vec keeps its value.
C27_InteriorEqualsLazy ==
  [][(status = "ready" /\ status' = "returned" /\ rows % 2 = 0 /\ rows >= 4 /\ cols >= 4) =>
       LET lazy == Collect(NewIter(data, rows, cols), <<>>, 0) IN
       \A row \in 0..(rows - 1) : \A col \in 0..(cols - 1) : \A ch \in 1..3 :
         LET k == row * cols + col IN
         vec'[3 * k + ch - 1] =
           IF 2 <= row /\ row < rows - 2 /\ 2 <= col /\ col < cols - 2
             THEN lazy[k + 1][ch]
             ELSE vec[3 * k + ch - 1]]_vars

-----------------------------------------------------------------------------
(* A further claim about the PNG readers *)

\* the planes of the image a reader returned, in the order of the samples
ReturnedPlanes(res) ==
  CASE res.fn = "read_gray8" -> <<res.image.v>>
    [] res.fn = "read_rgb8" -> <<res.image.r, res.image.g, res.image.b>>
    [] OTHER -> <<res.image.r, res.image.g, res.image.b, res.image.a>>

\* C28: when read_rgb8, read_rgba8 or read_gray8 returns an image, every row
\* of width pixels having been delivered, the pixel at column c of row r is
\* stored at index r * width + c of each plane, and a row that starts at
\* cursor r * width leaves the cursor at (r + 1) * width: one step per pixel,
\* none at the end of the row.
C28_RowMajorCursor ==
  (result.tag = "Ok") =>
    LET nc == Samples(reader.color_type)
        planes == ReturnedPlanes(result)
    IN \A r \in 0..(reader.height - 1) :
         /\ \A c \in 0..(reader.width - 1) : \A p \in 1..Len(planes) :
              planes[p][r * reader.width + c] = DecodedRow(reader, r)[c * nc + p]
         /\ ZipRow(planes, r * reader.width, DecodedRow(reader, r), nc).cursor
              = (r + 1) * reader.width

\* read_rgba8 returned an image of several rows of several pixels
C28_Witness ==
  /\ result.tag = "Ok"
  /\ result.fn = "read_rgba8"
  /\ reader.width = MaxPngWidth
  /\ reader.height = MaxPngHeight

-----------------------------------------------------------------------------
(* A claim about the PNG writers *)

\* C29: when write_gray8, write_grayalpha8, write_rgb8 or write_rgba8 reaches
\* the encoder, it hands over exactly channels * width * height bytes: item k
\* of the pixel iterator, k < width * height, fills the bytes channels * k up
\* to channels * k + channels - 1 in channel order, later items are ignored,
\* the bytes of the items an early end leaves out are 0, and a short input is
\* no error: the call returns Ok when the encoder accepts the buffer.
C29_EncoderBuffer ==
  (writer.pc = "done" /\ writer.header = "ok") =>
    LET channels == CASE writer.fn = "write_gray8" -> 1
                      [] writer.fn = "write_grayalpha8" -> 2
                      [] writer.fn = "write_rgb8" -> 3
                      [] OTHER -> 4
        size == writer.width * writer.height
    IN /\ Len(writer.handed) = 1
       /\ DOMAIN writer.handed[1] = 0..(channels * size - 1)
       /\ \A k \in 0..(size - 1) : \A c \in 0..(channels - 1) :
            writer.handed[1][channels * k + c] =
              IF k < Len(writer.img) THEN writer.img[k + 1][c + 1] ELSE 0
       /\ (writer.encode = "ok") => writer.ret = "Ok"

\* write_rgb8 was given fewer pixels than the image has and returned Ok
C29_Witness ==
  /\ writer.pc = "done"
  /\ writer.fn = "write_rgb8"
  /\ writer.width * writer.height >= 4
  /\ Len(writer.img) \in 1..(writer.width * writer.height - 1)
  /\ Len(writer.handed) = 1
  /\ writer.ret = "Ok"

-----------------------------------------------------------------------------
(* A further claim about DebayerRG8 *)

\* C30: in every state a DebayerRG8 over rows >= 2 and cols >= 2 reaches by
\* calls of next(), the cursor lies inside the mosaic, row_idx < rows and
\* col_idx < cols, or is the end position (rows, cols); so neither axis of a
\* call that is not at the end falls through to unreachable!(), and no call
\* of next() has panicked.
C30_CursorInRange ==
  /\ \/ row_idx < rows /\ col_idx < cols
     \/ row_idx = rows /\ col_idx = cols
  /\ ~(row_idx = rows /\ col_idx = cols) =>
       (Neighbours(row_idx, rows) # <<>> /\ Neighbours(col_idx, cols) # <<>>)
  /\ ret.tag # "panic"

\* the call that returned the last pixel has moved the cursor to the end
C30_Witness ==
  /\ ret.tag = "Some"
  /\ Len(items) = rows * cols
  /\ row_idx = rows /\ col_idx = cols
  /\ rows >= 3 /\ cols >= 3

=============================================================================
